---------------------------- MODULE Spec2Model ----------------------------
(***************************************************************************)
(* Zero-trust gateway (strands-go-wrapper): identity registry, audit log,  *)
(* policy engine, token-bucket rate limiter, anomaly detector and the      *)
(* authorization middleware with its asynchronous verification worker.     *)
(*                                                                         *)
(* Time is one clock `now`, counted in milliseconds, the resolution at     *)
(* which time.Now() is read: two readings taken without an intervening     *)
(* tick are equal.  time.Now().Unix() is now \div 1000.  UnixNano() is     *)
(* kept in the same unit (10^6 ns), which orders readings as nanoseconds   *)
(* do and stays within the integers of the model checker.                  *)
(***************************************************************************)
EXTENDS Integers, Sequences, FiniteSets, TLC

VARIABLES
    now,            \* the clock, in milliseconds
    agents,         \* identity.Manager.agents : id -> Agent
    mu,             \* identity.Manager.mu (sync.RWMutex): who holds / waits
    events,         \* audit.Logger.events
    agentRoles,     \* policy.PolicyEngine.agentRoles : id -> [role, ...]
    buckets,        \* ratelimit.RateLimiter.agents : id -> AgentBucket
    behaviors,      \* analytics.AnomalyDetector.behaviors
    anomalies,      \* analytics.AnomalyDetector.anomalies
    agentCache,     \* middleware.AuthMiddleware.agentCache
    pending,        \* middleware.VerificationQueue.pending
    qmu,            \* middleware.VerificationQueue.mu: its holder
    verifiedAgents, \* middleware.AuthMiddleware.verifiedAgents
    recordQ,        \* RecordRequest goroutines started and not yet run
    pc,             \* position of each handler goroutine
    req,            \* the request or call each goroutine is serving
    loc,            \* the locals of each goroutine
    ret,            \* the result of the operation that returned last
    hist            \* history (what has been called and returned so far)

vars == <<now, agents, mu, events, agentRoles, buckets, behaviors, anomalies,
          agentCache, pending, qmu, verifiedAgents, recordQ, pc, req, loc, ret, hist>>

(***************************************************************************)
(* Bounds of the model.                                                    *)
(***************************************************************************)
MaxTicks == 1
MaxRateTicks == 2
MaxRegistryTicks == 2
MaxEvents == 3
MaxCalls == 2
MaxRevocations == 1
MaxPrior == 2
MaxIdleTicks == 2
MaxSweepTicks == 3

(***************************************************************************)
(* Program constants.                                                      *)
(***************************************************************************)
MsPerSecond == 1000
requestsPerSecond == 100
burstSize == 50
cleanupInterval == 300000
BucketMaxAge == 3600000
CredentialTTL == 3600
cacheTTL == 30000
VerifiedTTL == 300000
PendingMaxAge == 30000
rateSpikeThreshold == 100
failedAuthThreshold == 5

Agents == {"a1", "a2"}
NoAgent == "none"

Range(s) == {s[i] : i \in 1..Len(s)}
Min(a, b) == IF a < b THEN a ELSE b

\* f with key k bound to v (a Go map assignment m[k] = v).
MapPut(f, k, v) == [x \in DOMAIN f \cup {k} |-> IF x = k THEN v ELSE f[x]]
\* f without key k (Go's delete(m, k)).
MapDel(f, k) == [x \in DOMAIN f \ {k} |-> f[x]]
EmptyMap == [x \in {} |-> 0]

Unix(t) == t \div MsPerSecond
UnixNano(t) == t

(***************************************************************************)
(* policy.PolicyEngine                                                     *)
(***************************************************************************)
roles ==
    [admin   |-> <<"agent:read", "agent:write", "agent:delete", "agent:verify", "audit:read">>,
     user    |-> <<"agent:read", "agent:verify">>,
     service |-> <<"agent:read">>]

RoleInputs == DOMAIN roles \cup {"auditor"}
ActionNames == {"agent:read", "agent:write", "agent:delete", "agent:verify", "audit:read"}

\* pe.agentRoles[agentID]: the nil slice when the key is absent.
RolesOf(agentID) == IF agentID \in DOMAIN agentRoles THEN agentRoles[agentID] ELSE <<>>

\* The inner loops of CanPerform / checkPermissionFast over a role list.
RolesPermit(roleList, allRoles, action) ==
    \E i \in 1..Len(roleList) :
        /\ roleList[i] \in DOMAIN allRoles
        /\ \E j \in 1..Len(allRoles[roleList[i]]) : allRoles[roleList[i]][j] = action

CanPerform(agentID, action) ==
    /\ agentID \in DOMAIN agentRoles
    /\ RolesPermit(agentRoles[agentID], roles, action)

GetAgentRoles(agentID) == RolesOf(agentID)

GetRoles == roles

\* Mutation: a role the principal already holds is assigned again.
AssignRoleResultRepeating(agentID, roleName) ==
    IF roleName \notin DOMAIN roles THEN "role not found" ELSE "ok"

AssignRoleResult(agentID, roleName) ==
    IF roleName \notin DOMAIN roles THEN "role not found"
    ELSE IF \E i \in 1..Len(RolesOf(agentID)) : RolesOf(agentID)[i] = roleName
         THEN "agent already has role"
         ELSE "ok"

\* Mutation: roles[:i] alone, dropping the tail.
RemoveAtTruncating(roleList, i) == SubSeq(roleList, 1, i - 1)

\* append(roles[:i], roles[i+1:]...) for the 1-based index i.
RemoveAt(roleList, i) ==
    SubSeq(roleList, 1, i - 1) \o SubSeq(roleList, i + 1, Len(roleList))

FirstIndex(roleList, roleName) ==
    CHOOSE i \in 1..Len(roleList) :
        /\ roleList[i] = roleName
        /\ \A j \in 1..(i - 1) : roleList[j] # roleName

RemoveRoleResult(agentID, roleName) ==
    IF agentID \notin DOMAIN agentRoles THEN "agent has no roles"
    ELSE IF roleName \in Range(agentRoles[agentID]) THEN "ok"
         ELSE "agent does not have role"

\* hist.bound[id]: the roles assigned to id with result ok and not removed
\* with result ok since.  hist.obs[g].policyChanged: the roles of the
\* principal of the request g is serving changed while it was in flight.
PolicyChanged(agentID) ==
    [g \in DOMAIN hist.obs |->
        IF pc[g] # "idle" /\ req[g].agent = agentID
        THEN [hist.obs[g] EXCEPT !.policyChanged = TRUE]
        ELSE hist.obs[g]]

AssignRole(agentID, roleName) ==
    LET r == AssignRoleResult(agentID, roleName) IN
    /\ agentRoles' = IF r = "ok"
                     THEN MapPut(agentRoles, agentID, Append(RolesOf(agentID), roleName))
                     ELSE agentRoles
    /\ ret' = [op |-> "AssignRole", agent |-> agentID, arg |-> roleName, result |-> r]
    /\ hist' = IF r = "ok"
               THEN [hist EXCEPT !.bound[agentID] = @ \cup {roleName},
                                 !.obs = PolicyChanged(agentID)]
               ELSE hist

RemoveRole(agentID, roleName) ==
    LET r == RemoveRoleResult(agentID, roleName) IN
    /\ agentRoles' = IF r = "ok"
                     THEN MapPut(agentRoles, agentID,
                                 RemoveAt(agentRoles[agentID],
                                          FirstIndex(agentRoles[agentID], roleName)))
                     ELSE agentRoles
    /\ ret' = [op |-> "RemoveRole", agent |-> agentID, arg |-> roleName, result |-> r]
    /\ hist' = IF r = "ok"
               THEN [hist EXCEPT !.bound[agentID] = @ \ {roleName},
                                 !.obs = PolicyChanged(agentID)]
               ELSE hist

(***************************************************************************)
(* The clock.  Tick(d) lets d milliseconds pass.                           *)
(***************************************************************************)
Tick(d, maxTicks) ==
    /\ hist.ticks < maxTicks
    /\ now' = now + d
    /\ hist' = [hist EXCEPT !.ticks = @ + 1, !.quiet = TRUE]

(***************************************************************************)
(* ratelimit.RateLimiter                                                   *)
(***************************************************************************)
\* int(elapsed.Seconds()) for an elapsed time in milliseconds.
Seconds(elapsedMs) == elapsedMs \div MsPerSecond

NewBucket(t) == [tokens |-> burstSize, lastFill |-> t, requests |-> 0, lastReset |-> t]

\* The bucket AllowRequest works on: the stored one, or a new one.
BucketOf(bs, agentID, t) == IF agentID \in DOMAIN bs THEN bs[agentID] ELSE NewBucket(t)

\* Mutation: fractions of a second refill too.
TokensToAddFractional(bucket, t) ==
    ((t - bucket.lastFill) * requestsPerSecond) \div MsPerSecond

TokensToAdd(bucket, t) == Seconds(t - bucket.lastFill) * requestsPerSecond

\* Mutation: the refill is not capped at the burst size.
RefillUncapped(bucket, t) ==
    IF TokensToAdd(bucket, t) > 0
    THEN [bucket EXCEPT !.tokens = bucket.tokens + TokensToAdd(bucket, t), !.lastFill = t]
    ELSE bucket

\* Lines 87-95: refill based on the time elapsed since lastFill.
Refill(bucket, t) ==
    IF TokensToAdd(bucket, t) > 0
    THEN [bucket EXCEPT !.tokens = Min(bucket.tokens + TokensToAdd(bucket, t), burstSize),
                        !.lastFill = t]
    ELSE bucket

\* Mutation: an admitted call leaves the token in the bucket.
AfterAllowKeepingToken(bs, agentID, t) ==
    LET b == Refill(BucketOf(bs, agentID, t), t) IN
    MapPut(bs, agentID, IF b.tokens > 0 THEN [b EXCEPT !.requests = @ + 1] ELSE b)

\* The value AllowRequest returns for agentID at time t.
Allowed(bs, agentID, t) == Refill(BucketOf(bs, agentID, t), t).tokens > 0

\* The buckets AllowRequest leaves behind.
AfterAllow(bs, agentID, t) ==
    LET b == Refill(BucketOf(bs, agentID, t), t) IN
    MapPut(bs, agentID,
           IF b.tokens > 0
           THEN [b EXCEPT !.tokens = @ - 1, !.requests = @ + 1]
           ELSE b)

\* Reset (lines 131-137).
Reset(bs, agentID) == MapDel(bs, agentID)

\* Mutation: the sweeper takes every bucket for an old one.
StaleAlways(bucket, t) == TRUE

\* cleanupOldBuckets, line 150: now.Sub(bucket.lastFill) > time.Hour.
Stale(bucket, t) == t - bucket.lastFill > BucketMaxAge

\* One pass of cleanupOldBuckets (lines 145-155) at time t.
SweepBuckets(bs, t) == [a \in {x \in DOMAIN bs : ~Stale(bs[x], t)} |-> bs[a]]

\* A burst counted in hist.bCalls is under way: its first burstSize calls
\* come with nothing in between.
InBurst == hist.bCalls > 0 /\ hist.bCalls < burstSize

\* cleanupOldBuckets (lines 140-157): a pass of the goroutine started by
\* NewRateLimiter, one for every tick of its five-minute ticker (a pass may
\* run late; hist.swept is the tick of the last pass).
cleanupOldBuckets ==
    /\ ~InBurst
    /\ now \div cleanupInterval > hist.swept
    /\ buckets' = SweepBuckets(buckets, now)
    /\ hist' = [hist EXCEPT !.swept = now \div cleanupInterval]
    /\ UNCHANGED <<now, agents, mu, events, agentRoles, behaviors, anomalies,
                   agentCache, pending, qmu, verifiedAgents, recordQ, pc, req, loc, ret>>

\* hist.wAdmitted counts the calls that returned true for hist.wAgent since
\* the window was opened at time hist.wStart.
CountAllow(h, agentID, ok) ==
    IF ok /\ h.wStart >= 0 /\ h.wAgent = agentID
    THEN [h EXCEPT !.wAdmitted = @ + 1, !.quiet = FALSE]
    ELSE [h EXCEPT !.quiet = FALSE]

AllowRequest(agentID) ==
    /\ buckets' = AfterAllow(buckets, agentID, now)
    /\ ret' = [op |-> "AllowRequest", agent |-> agentID, arg |-> "",
               result |-> IF Allowed(buckets, agentID, now) THEN "true" ELSE "false"]
    /\ hist' = CountAllow(hist, agentID, Allowed(buckets, agentID, now))

\* Observation only: open the window in which admissions are counted.  A
\* window holds every call made at its first instant, so it opens before
\* any call of that instant (hist.quiet).
OpenWindow(agentID) ==
    /\ hist.wStart < 0
    /\ hist.quiet
    /\ hist' = [hist EXCEPT !.wStart = now, !.wAgent = agentID, !.wAdmitted = 0]

(***************************************************************************)
(* audit.Logger                                                            *)
(***************************************************************************)
\* fmt.Sprintf("evt_%d", time.Now().UnixNano())
EventID(t) == <<"evt_", UnixNano(t)>>

AuditEvent(t, eventType, agentID, action, status, details) ==
    [EventID |-> EventID(t), Timestamp |-> Unix(t), EventType |-> eventType,
     AgentID |-> agentID, Action |-> action, Status |-> status, Details |-> details]

\* Mutation: the new event is put in front of the log.
LogEventInFront(evs, t, eventType, agentID, action, status, details) ==
    <<AuditEvent(t, eventType, agentID, action, status, details)>> \o evs

\* The log after LogEvent.
LogEvent(evs, t, eventType, agentID, action, status, details) ==
    Append(evs, AuditEvent(t, eventType, agentID, action, status, details))

GetEvents == events

GetEventsByAgent(agentID) == SelectSeq(events, LAMBDA e : e.AgentID = agentID)

GetEventCount == Len(events)

(***************************************************************************)
(* crypto.Engine.  Byte strings are records [kind, key, msg]; a Go string  *)
(* is [enc, of]: enc = "hex" when it is the hex encoding of the bytes      *)
(* `of`, "raw" when it is no hex text at all.  The empty string is the hex *)
(* encoding of the empty byte string.                                      *)
(***************************************************************************)
KeyIds == {"k1", "k2"}
NonceIds == {"n1", "n2"}

EmptyBytes == [kind |-> "empty", key |-> "", msg |-> ""]
PublicKey(k) == [kind |-> "pub", key |-> k, msg |-> ""]
PrivateKey(k) == [kind |-> "priv", key |-> k, msg |-> ""]
NonceBytes(n) == [kind |-> "nonce", key |-> n, msg |-> ""]

BytesToHex(b) == [enc |-> "hex", of |-> b]
PublicKeyToHex(pub) == BytesToHex(pub)
PrivateKeyToHex(priv) == BytesToHex(priv)
EmptyString == BytesToHex(EmptyBytes)
NotHex == [enc |-> "raw", of |-> EmptyBytes]

\* hex.DecodeString: the bytes, or the error.
HexDecodes(hexStr) == hexStr.enc = "hex"
HexToBytes(hexStr) == hexStr.of

\* HexToPublicKey fails on text that is no hex or not of PublicKeySize.
HexToPublicKeyOK(hexStr) == HexDecodes(hexStr) /\ hexStr.of.kind = "pub"

\* ed25519.Sign(privateKey, data); data is named by msg.
Sign(priv, msg) == [kind |-> "sig", key |-> priv.key, msg |-> msg]

\* ed25519.Verify(publicKey, data, signature)
Verify(pub, msg, signature) ==
    /\ signature.kind = "sig"
    /\ signature.key = pub.key
    /\ signature.msg = msg

\* []byte(agent.Nonce): the text of the stored nonce, as the signed message.
NonceText(nonceHex) == nonceHex.of.key

(***************************************************************************)
(* identity.Manager                                                        *)
(***************************************************************************)
Threads == {"t1", "t2"}
Worker == "worker"
Goroutines == Threads \cup {Worker}

\* m.mu.RLock() returns at once unless a writer holds or waits for the lock;
\* m.mu.Lock() returns once no reader and no writer holds it.  Every
\* critical section of the manager but VerifyAgent's is one step, so the
\* only holders that persist are the readers recorded in mu.readers.
\* A caller of RevokeAgent that takes its steps one by one holds the write
\* lock from m.mu.Lock() until it returns.
Writers ==
    {g \in Goroutines :
         pc[g] \in {"RevokeAgent:locked", "RevokeAgent:LogEvent", "LogEvent:locked"}}

RLockFree == mu.waiting = {} /\ Writers = {}
LockFree == mu.readers = {} /\ mu.waiting = {} /\ Writers = {}

NewAgent(agentID, k, n, t) ==
    [AgentID       |-> agentID,
     PublicKeyHex  |-> PublicKeyToHex(PublicKey(k)),
     PrivateKeyHex |-> PrivateKeyToHex(PrivateKey(k)),
     Nonce         |-> BytesToHex(NonceBytes(n)),
     CreatedAt     |-> Unix(t),
     ExpiresAt     |-> Unix(t) + CredentialTTL,
     Status        |-> "active"]

\* Mutation: a revoked id counts as free again.
AlreadyRegisteredActive(agentID) ==
    agentID \in DOMAIN agents /\ agents[agentID].Status = "active"

\* RegisterAgent line 61: _, exists := m.agents[agentID]
AlreadyRegistered(agentID) == agentID \in DOMAIN agents

RegisterAgent(agentID, k, n) ==
    /\ LockFree
    /\ IF AlreadyRegistered(agentID)
       THEN /\ ret' = [op |-> "RegisterAgent", agent |-> agentID, arg |-> "",
                       result |-> "already registered"]
            /\ UNCHANGED <<agents, events, hist>>
       ELSE /\ Len(events) < MaxEvents
            /\ agents' = MapPut(agents, agentID, NewAgent(agentID, k, n, now))
            /\ events' = LogEvent(events, now, "REGISTER", agentID, "agent_registration",
                                  "SUCCESS", Unix(now) + CredentialTTL)
            /\ ret' = [op |-> "RegisterAgent", agent |-> agentID, arg |-> "",
                       result |-> "ok"]
            /\ hist' = [hist EXCEPT !.regOk[agentID] = Min(@ + 1, 2)]

GetAgentOK(agentID) == agentID \in DOMAIN agents

GetAgent(agentID) ==
    /\ RLockFree
    /\ ret' = [op |-> "GetAgent", agent |-> agentID, arg |-> "",
               result |-> IF GetAgentOK(agentID) THEN "ok" ELSE "agent not found"]

\* Mutation: the whole record is copied.
WholeCopy(agent) == agent

\* The copies ListAgents returns (map order is unspecified: a set).
SafeCopy(agent) == [agent EXCEPT !.PrivateKeyHex = EmptyString]

\* ListAgents over the registry table registry.
ListAgentsOf(registry) == {SafeCopy(registry[a]) : a \in DOMAIN registry}

ListAgents == ListAgentsOf(agents)

\* A call of ListAgents (under the manager's read lock); hist.listed keeps
\* what it returned.
ListAgentsCall ==
    /\ RLockFree
    /\ ret' = [op |-> "ListAgents", agent |-> NoAgent, arg |-> "", result |-> "ok"]
    /\ hist' = [hist EXCEPT !.listed = ListAgents]

\* Mutation: the nonce is compared before the signature text is decoded.
VerifyAgentResultNonceFirst(agentID, signatureHex, nonceHex) ==
    IF agentID \notin DOMAIN agents THEN "agent not found"
    ELSE IF agents[agentID].Status # "active" THEN "agent not active"
    ELSE IF Unix(now) > agents[agentID].ExpiresAt THEN "agent credentials expired"
    ELSE IF nonceHex # agents[agentID].Nonce THEN "nonce mismatch"
    ELSE IF ~HexDecodes(signatureHex) THEN "invalid signature format"
    ELSE IF ~HexToPublicKeyOK(agents[agentID].PublicKeyHex) THEN "invalid public key size"
    ELSE IF ~Verify(HexToBytes(agents[agentID].PublicKeyHex),
                    NonceText(agents[agentID].Nonce), HexToBytes(signatureHex))
         THEN "signature verification failed"
         ELSE "pass"

\* VerifyAgent lines 135-169: the error returned, or "pass" when control
\* reaches line 170.
VerifyAgentResult(agentID, signatureHex, nonceHex) ==
    IF agentID \notin DOMAIN agents THEN "agent not found"
    ELSE IF agents[agentID].Status # "active" THEN "agent not active"
    ELSE IF Unix(now) > agents[agentID].ExpiresAt THEN "agent credentials expired"
    ELSE IF ~HexDecodes(signatureHex) THEN "invalid signature format"
    ELSE IF nonceHex # agents[agentID].Nonce THEN "nonce mismatch"
    ELSE IF ~HexToPublicKeyOK(agents[agentID].PublicKeyHex) THEN "invalid public key size"
    ELSE IF ~Verify(HexToBytes(agents[agentID].PublicKeyHex),
                    NonceText(agents[agentID].Nonce), HexToBytes(signatureHex))
         THEN "signature verification failed"
         ELSE "pass"

\* VerifyAgent called by goroutine g.  It takes the read lock (line 132).
\* On an error it returns it, releasing the read lock.  When every check
\* passes it calls m.mu.Lock() (line 170) with its own read lock still held
\* (the RUnlock is deferred): g waits for the readers to leave and is one of
\* them, so lines 171-175 (the VERIFY/SUCCESS event, return nil) are never
\* reached and g keeps the read lock and its place as waiting writer.
VerifyAgent(g, agentID, signatureHex, nonceHex) ==
    /\ RLockFree
    /\ IF VerifyAgentResult(agentID, signatureHex, nonceHex) = "pass"
       THEN /\ mu' = [readers |-> mu.readers \cup {g}, waiting |-> mu.waiting \cup {g}]
            /\ pc' = [pc EXCEPT ![g] = "VerifyAgent:Lock"]
            /\ UNCHANGED ret
       ELSE /\ ret' = [op |-> "VerifyAgent", agent |-> agentID, arg |-> NonceText(nonceHex),
                       result |-> VerifyAgentResult(agentID, signatureHex, nonceHex)]
            /\ UNCHANGED <<mu, pc>>

\* RevokeAgent between m.mu.Lock() and the deferred Unlock (lines 182-192).
RevokeAgentLocked(agentID) ==
    /\ IF agentID \notin DOMAIN agents
       THEN /\ ret' = [op |-> "RevokeAgent", agent |-> agentID, arg |-> "",
                       result |-> "agent not found"]
            /\ UNCHANGED <<agents, events, hist>>
       ELSE /\ Len(events) < MaxEvents
            /\ agents' = [agents EXCEPT ![agentID].Status = "revoked"]
            /\ events' = LogEvent(events, now, "REVOKE", agentID, "agent_revocation",
                                  "SUCCESS", Unix(now))
            /\ ret' = [op |-> "RevokeAgent", agent |-> agentID, arg |-> "",
                       result |-> "ok"]
            /\ hist' = [hist EXCEPT !.revoked = @ \cup {agentID}]

RevokeAgent(agentID) ==
    /\ LockFree
    /\ RevokeAgentLocked(agentID)

\* RevokeAgent called by goroutine g, step by step: m.mu.Lock() ...
RevokeAgentLock(g, agentID) ==
    /\ pc[g] = "idle"
    /\ LockFree
    /\ agentID \in DOMAIN agents => Len(events) < MaxEvents
    /\ pc' = [pc EXCEPT ![g] = "RevokeAgent:locked"]
    /\ req' = [req EXCEPT ![g].agent = agentID]

\* ... then lines 183-188: the lookup and the write of the status ...
RevokeAgentWrite(g) ==
    /\ pc[g] = "RevokeAgent:locked"
    /\ IF req[g].agent \notin DOMAIN agents
       THEN /\ ret' = [op |-> "RevokeAgent", agent |-> req[g].agent, arg |-> "",
                       result |-> "agent not found"]
            /\ pc' = [pc EXCEPT ![g] = "idle"]
            /\ req' = [req EXCEPT ![g].agent = NoAgent]
            /\ UNCHANGED <<agents, hist>>
       ELSE /\ agents' = [agents EXCEPT ![req[g].agent].Status = "revoked"]
            /\ hist' = [hist EXCEPT !.revoked = @ \cup {req[g].agent}]
            /\ pc' = [pc EXCEPT ![g] = "RevokeAgent:LogEvent"]
            /\ UNCHANGED <<ret, req>>

\* ... then lines 189-191, the call of LogEvent: its argument revoked_at
\* is the clock's reading at the call (line 190, kept in loc[g].revokedAt),
\* and LogEvent takes the logger's lock (logger.go 36) while the manager's
\* lock is held; every other caller of
\* LogEvent holds the manager's lock too, and the readers of the log hold
\* the logger's lock within one step, so the lock is free here ...
RevokeAgentLogLock(g) ==
    /\ pc[g] = "RevokeAgent:LogEvent"
    /\ pc' = [pc EXCEPT ![g] = "LogEvent:locked"]
    /\ loc' = [loc EXCEPT ![g].revokedAt = Unix(now)]

\* ... then the event is built with the clock's reading of logger.go 41 as
\* its Timestamp and appended; the logger's deferred Unlock and the return
\* of RevokeAgent, which releases the manager's lock, follow (lines 189-192).
RevokeAgentLog(g) ==
    /\ pc[g] = "LogEvent:locked"
    /\ events' = LogEvent(events, now, "REVOKE", req[g].agent, "agent_revocation",
                          "SUCCESS", loc[g].revokedAt)
    /\ ret' = [op |-> "RevokeAgent", agent |-> req[g].agent, arg |-> "", result |-> "ok"]
    /\ pc' = [pc EXCEPT ![g] = "idle"]
    /\ req' = [req EXCEPT ![g].agent = NoAgent]
    /\ loc' = [loc EXCEPT ![g].revokedAt = -1]

(***************************************************************************)
(* analytics.AnomalyDetector                                               *)
(***************************************************************************)
NewBehavior(lastRequestTime) ==
    [RequestCount |-> 0, FailedAuthCount |-> 0, LastRequestTime |-> lastRequestTime,
     LastFailureTime |-> 0, TotalAnomalies |-> 0]

Anomaly(t, agentID, type, severity, count, threshold) ==
    [AnomalyID |-> <<"anom_", UnixNano(t)>>, Timestamp |-> Unix(t), AgentID |-> agentID,
     Type |-> type, Severity |-> severity, Count |-> count, Threshold |-> threshold]

\* Mutation: the threshold itself already counts as a spike.
rateSpikeAtThreshold(behavior) == behavior.RequestCount >= rateSpikeThreshold

\* The conditions of checkRateSpike (line 104) and checkBruteForce (line 126).
rateSpike(behavior) == behavior.RequestCount > rateSpikeThreshold

bruteForce(behavior) == behavior.FailedAuthCount > failedAuthThreshold

\* RecordRequest with checkRateSpike.
RecordRequest(agentID) ==
    LET b0 == IF agentID \in DOMAIN behaviors THEN behaviors[agentID]
              ELSE NewBehavior(Unix(now))
        b1 == [b0 EXCEPT !.RequestCount = @ + 1, !.LastRequestTime = Unix(now)]
        spike == rateSpike(b1)
    IN  /\ behaviors' = MapPut(behaviors, agentID,
                               IF spike THEN [b1 EXCEPT !.TotalAnomalies = @ + 1] ELSE b1)
        /\ anomalies' = IF spike
                        THEN Append(anomalies,
                                    Anomaly(now, agentID, "rate_spike", "medium",
                                            b1.RequestCount, rateSpikeThreshold))
                        ELSE anomalies

\* Mutation: the failure is not counted.
RecordFailedAuthSkipped(agentID) == UNCHANGED <<behaviors, anomalies>>

\* RecordFailedAuth with checkBruteForce.
RecordFailedAuth(agentID) ==
    LET b0 == IF agentID \in DOMAIN behaviors THEN behaviors[agentID] ELSE NewBehavior(0)
        b1 == [b0 EXCEPT !.FailedAuthCount = @ + 1, !.LastFailureTime = Unix(now)]
        brute == bruteForce(b1)
    IN  /\ behaviors' = MapPut(behaviors, agentID,
                               IF brute THEN [b1 EXCEPT !.TotalAnomalies = @ + 1] ELSE b1)
        /\ anomalies' = IF brute
                        THEN Append(anomalies,
                                    Anomaly(now, agentID, "failed_auth", "high",
                                            b1.FailedAuthCount, failedAuthThreshold))
                        ELSE anomalies

\* ResetAgent: the record of agentID is deleted; the anomaly list stays.
ResetAgent(agentID) ==
    /\ behaviors' = MapDel(behaviors, agentID)
    /\ UNCHANGED anomalies

(***************************************************************************)
(* middleware.AuthMiddleware and ProtectedHandler.ServeHTTP.               *)
(*                                                                         *)
(* A handler goroutine g serves one request at a time; pc[g] is the stage  *)
(* it is about to run.  loc[g].agent is the *identity.Agent it holds: a    *)
(* pointer to the record in the manager's map, named by its id and read    *)
(* through agents.  loc[g].status is the HTTP status written (0 while the  *)
(* request is in flight, 200 when the wrapped handler was called).         *)
(***************************************************************************)
\* getFromCache: the entry, unless absent or time.Now().After(expiresAt).
CacheHit(agentID) ==
    /\ agentID \in DOMAIN agentCache
    /\ ~(now > agentCache[agentID].expiresAt)

\* cacheAgent
CacheEntry(agentID, roleList, t) ==
    [agent |-> agentID, roles |-> roleList, expiresAt |-> t + cacheTTL]

\* Mutation: every role list is taken to hold the permission.
checkPermissionAlways(roleList, action) == TRUE

checkPermissionFast(roleList, action) == RolesPermit(roleList, GetRoles, action)

isRecentlyVerified(agentID) ==
    /\ agentID \in DOMAIN verifiedAgents
    /\ now < verifiedAgents[agentID]

\* Mutation: only a status of "expired" is refused.
StatusNotExpired(status) == status # "expired"

\* ServeHTTP line 426: agent.Status != "active" denies.
StatusAllows(status) == status = "active"

PendingVerification(agentID, signature, nonce, t) ==
    [AgentID |-> agentID, Signature |-> signature, Nonce |-> nonce, CreatedAt |-> t,
     Verified |-> FALSE, VerifiedAt |-> 0, Error |-> ""]

\* sendError(w, code, message): the request is answered and the goroutine is
\* free again.
Deny(g, code, message) ==
    /\ loc' = [loc EXCEPT ![g].status = code, ![g].reason = message]
    /\ pc' = [pc EXCEPT ![g] = "idle"]

\* The handler wrapped by Protect or ProtectWithVerify when it is left
\* abstract: calling it ends the request.  The handlers of main.go run as a
\* step of their own (pc = "handler").
WrappedHandler == "handler"

\* Mutation: the wrapped handler is called without the recording goroutine.
AdmitUnrecorded(g) ==
    /\ loc' = [loc EXCEPT ![g].status = 200, ![g].reason = "handler"]
    /\ pc' = [pc EXCEPT ![g] = IF req[g].handler = WrappedHandler THEN "idle" ELSE "handler"]
    /\ UNCHANGED recordQ

\* Lines 463-472: RecordRequest is handed to a new goroutine (recordQ counts
\* the ones that have not run yet) and the wrapped handler is called.
Admit(g) ==
    /\ loc' = [loc EXCEPT ![g].status = 200, ![g].reason = "handler"]
    /\ pc' = [pc EXCEPT ![g] = IF req[g].handler = WrappedHandler THEN "idle" ELSE "handler"]
    /\ recordQ' = [recordQ EXCEPT ![req[g].agent] = @ + 1]

\* Lines 390-411 for a protected handler: the X-Agent-ID header, then the
\* agent cache.
\* h is the history the request is counted in.
StartCounted(h, g, agentID, handler, action, verify, signature) ==
    /\ pc[g] = "idle"
    /\ req' = [req EXCEPT ![g] = [agent |-> agentID, handler |-> handler, action |-> action,
                                  verify |-> verify, signature |-> signature]]
    /\ hist' = [h EXCEPT
           !.obs[g] = [afterRevoke |-> agentID \in hist.revoked,
                       expired |-> /\ agentID \in DOMAIN agents
                                   /\ Unix(now) > agents[agentID].ExpiresAt,
                       cacheHit |-> agentID # "" /\ CacheHit(agentID),
                       policyChanged |-> FALSE,
                       canAtAuthz |-> FALSE,
                       authz |-> "none",
                       rate |-> "none",
                       raced |-> FALSE,
                       atVerify |-> FALSE,
                       validWithinTTL |-> FALSE]]
    /\ IF agentID = ""
       THEN /\ loc' = [loc EXCEPT ![g] = [agent |-> NoAgent, roles |-> <<>>, verified |-> FALSE,
                                          status |-> 401,
                                          reason |-> "X-Agent-ID header required", todo |-> <<>>,
                                          revokedAt |-> -1]]
            /\ UNCHANGED pc
       ELSE IF CacheHit(agentID)
       THEN /\ loc' = [loc EXCEPT ![g] = [agent |-> agentCache[agentID].agent,
                                          roles |-> agentCache[agentID].roles,
                                          verified |-> FALSE, status |-> 0, reason |-> "",
                                          todo |-> <<>>,
                                          revokedAt |-> -1]]
            /\ pc' = [pc EXCEPT ![g] = "status"]
       ELSE /\ loc' = [loc EXCEPT ![g] = [agent |-> NoAgent, roles |-> <<>>, verified |-> FALSE,
                                          status |-> 0, reason |-> "", todo |-> <<>>,
                                          revokedAt |-> -1]]
            /\ pc' = [pc EXCEPT ![g] = "load"]
    /\ UNCHANGED <<now, agents, mu, events, agentRoles, buckets, behaviors, anomalies,
                   agentCache, pending, qmu, verifiedAgents, recordQ, ret>>

Start(g, agentID, handler, action, verify, signature) ==
    StartCounted([hist EXCEPT !.calls = @ + 1], g, agentID, handler, action, verify, signature)

\* Lines 413-422 on a cache miss, one step for each call, since no lock is
\* held from one call to the next.  Line 415: GetAgent, under the manager's
\* read lock.
Load(g) ==
    /\ pc[g] = "load"
    /\ RLockFree
    /\ IF GetAgentOK(req[g].agent)
       THEN /\ loc' = [loc EXCEPT ![g].agent = req[g].agent]
            /\ pc' = [pc EXCEPT ![g] = "GetAgentRoles"]
       ELSE /\ pc' = [pc EXCEPT ![g] = "agent not found"]
            /\ UNCHANGED loc
    /\ UNCHANGED <<now, agents, mu, events, agentRoles, buckets, behaviors, anomalies,
                   agentCache, pending, qmu, verifiedAgents, recordQ, req, ret, hist>>

\* Line 421: GetAgentRoles, under the policy engine's lock.
LoadRoles(g) ==
    /\ pc[g] = "GetAgentRoles"
    /\ loc' = [loc EXCEPT ![g].roles = GetAgentRoles(req[g].agent)]
    /\ pc' = [pc EXCEPT ![g] = "cacheAgent"]
    /\ UNCHANGED <<now, agents, mu, events, agentRoles, buckets, behaviors, anomalies,
                   agentCache, pending, qmu, verifiedAgents, recordQ, req, ret, hist>>

\* Line 422: cacheAgent, under the cache's lock, with the roles read before.
LoadCache(g) ==
    /\ pc[g] = "cacheAgent"
    /\ agentCache' = MapPut(agentCache, req[g].agent,
                            CacheEntry(loc[g].agent, loc[g].roles, now))
    /\ pc' = [pc EXCEPT ![g] = "status"]
    /\ UNCHANGED <<now, agents, mu, events, agentRoles, buckets, behaviors, anomalies,
                   pending, qmu, verifiedAgents, recordQ, req, loc, ret, hist>>

\* The goroutines that hold the manager's write lock for the record of
\* agentID.
StatusWriters(agentID) == {w \in Writers : req[w].agent = agentID}

\* Lines 426-434: the status of the record the goroutine points to, read
\* without the manager's lock, then the permission check on the roles the
\* goroutine holds (checkPermissionFast reads the role table, which nothing
\* writes after construction).  A refusal is counted and answered in a step
\* of its own.
Check(g) ==
    /\ pc[g] = "status"
    /\ IF ~StatusAllows(agents[loc[g].agent].Status)
       THEN /\ pc' = [pc EXCEPT ![g] = "agent status"]
            /\ hist' = [hist EXCEPT !.obs[g].raced = StatusWriters(loc[g].agent) # {}]
       ELSE IF req[g].action # "" /\ ~checkPermissionFast(loc[g].roles, req[g].action)
       THEN /\ pc' = [pc EXCEPT ![g] = "agent not authorized"]
            /\ hist' = [hist EXCEPT !.obs[g].authz = "deny",
                                    !.obs[g].raced = StatusWriters(loc[g].agent) # {},
                                    !.obs[g].canAtAuthz = CanPerform(req[g].agent, req[g].action)]
       ELSE /\ pc' = [pc EXCEPT ![g] = "rate"]
            /\ hist' = [hist EXCEPT !.obs[g].authz = "pass",
                                    !.obs[g].raced = StatusWriters(loc[g].agent) # {},
                                    !.obs[g].canAtAuthz = CanPerform(req[g].agent, req[g].action)]
    /\ UNCHANGED <<now, agents, mu, events, agentRoles, buckets, behaviors, anomalies,
                   agentCache, pending, qmu, verifiedAgents, recordQ, req, loc, ret>>

\* The refusals that are counted as failed authentications, and their codes.
Refusals == {"agent not found", "agent status", "agent not authorized"}

RefusalCode(message) == IF message = "agent not found" THEN 401 ELSE 403

\* Mutation: a refused request is charged a token.
RefuseCharging(g) ==
    /\ pc[g] \in Refusals
    /\ RecordFailedAuth(req[g].agent)
    /\ Deny(g, RefusalCode(pc[g]), pc[g])
    /\ buckets' = AfterAllow(buckets, req[g].agent, now)
    /\ UNCHANGED <<now, agents, mu, events, agentRoles, agentCache, pending, qmu,
                   verifiedAgents, recordQ, req, ret, hist>>

\* Lines 417-419, 427-429 and 435-437: RecordFailedAuth, under the
\* detector's lock, then sendError.
Refuse(g) ==
    /\ pc[g] \in Refusals
    /\ RecordFailedAuth(req[g].agent)
    /\ Deny(g, RefusalCode(pc[g]), pc[g])
    /\ UNCHANGED <<now, agents, mu, events, agentRoles, buckets, agentCache, pending, qmu,
                   verifiedAgents, recordQ, req, ret, hist>>

\* Lines 441-445, and the admission when the route needs no verification.
Rate(g) ==
    /\ pc[g] = "rate"
    /\ buckets' = AfterAllow(buckets, req[g].agent, now)
    /\ IF ~Allowed(buckets, req[g].agent, now)
       THEN Deny(g, 429, "rate limit exceeded") /\ UNCHANGED recordQ
       ELSE IF req[g].verify
       THEN pc' = [pc EXCEPT ![g] = "verify"] /\ UNCHANGED <<loc, recordQ>>
       ELSE Admit(g)
    /\ hist' = [hist EXCEPT !.obs[g].rate = IF Allowed(buckets, req[g].agent, now)
                                            THEN "pass" ELSE "deny"]
    /\ UNCHANGED <<now, agents, mu, events, agentRoles, behaviors, anomalies, agentCache,
                   pending, qmu, verifiedAgents, req, ret>>

\* hist.passedAt[id]: the last time the worker found a queued signature of
\* id valid (every check of VerifyAgent passed), -1 if never.
ValidWithinTTL(agentID) ==
    hist.passedAt[agentID] >= 0 /\ now < hist.passedAt[agentID] + VerifiedTTL

\* Lines 448-457: the X-Signature header and the recently-verified cache.
VerifyStage(g) ==
    /\ pc[g] = "verify"
    /\ hist' = [hist EXCEPT !.obs[g].atVerify = TRUE,
                            !.obs[g].validWithinTTL = ValidWithinTTL(req[g].agent)]
    /\ IF req[g].signature = EmptyString
       THEN Deny(g, 400, "X-Signature header required") /\ UNCHANGED recordQ
       ELSE IF isRecentlyVerified(req[g].agent)
       THEN /\ loc' = [loc EXCEPT ![g].status = 200, ![g].reason = "handler",
                                  ![g].verified = TRUE]
            /\ pc' = [pc EXCEPT ![g] = IF req[g].handler = WrappedHandler
                                        THEN "idle" ELSE "handler"]
            /\ recordQ' = [recordQ EXCEPT ![req[g].agent] = @ + 1]
       ELSE pc' = [pc EXCEPT ![g] = "enqueue"] /\ UNCHANGED <<loc, recordQ>>
    /\ UNCHANGED <<now, agents, mu, events, agentRoles, buckets, behaviors, anomalies,
                   agentCache, pending, qmu, verifiedAgents, req, ret>>

\* Line 459, queueVerification (under the queue's lock), then the admission.
Enqueue(g) ==
    /\ pc[g] = "enqueue"
    /\ qmu = NoAgent
    /\ pending' = MapPut(pending, req[g].agent,
                         PendingVerification(req[g].agent, req[g].signature,
                                             agents[loc[g].agent].Nonce, now))
    /\ Admit(g)
    /\ UNCHANGED <<now, agents, mu, events, agentRoles, buckets, behaviors, anomalies,
                   agentCache, qmu, verifiedAgents, req, ret, hist>>

\* The goroutine started at line 464 runs.
RunRecordRequest(agentID) ==
    /\ recordQ[agentID] > 0
    /\ recordQ' = [recordQ EXCEPT ![agentID] = @ - 1]
    /\ RecordRequest(agentID)
    /\ UNCHANGED <<now, agents, mu, events, agentRoles, buckets, agentCache, pending, qmu,
                   verifiedAgents, pc, req, loc, ret, hist>>

(***************************************************************************)
(* verificationWorker: one pass of the ticker loop (lines 494-528).        *)
(***************************************************************************)
\* The orders in which `range pending` may visit the entries.
Orders(S) ==
    {o \in [1..Cardinality(S) -> S] : \A i, j \in 1..Cardinality(S) : o[i] = o[j] => i = j}

\* What VerifyAgent answers for the entry of agentID (line 505).
EntryResult(agentID) ==
    VerifyAgentResult(agentID, pending[agentID].Signature, pending[agentID].Nonce)

\* Mutation: the failure is not written to the entry.
FailedUnmarked(pv, agentID) == pv

\* Lines 498-509 for one entry whose verification fails.
Failed(pv, agentID) ==
    [pv EXCEPT !.Error = IF GetAgentOK(agentID) THEN EntryResult(agentID)
                         ELSE "agent not found",
               !.VerifiedAt = now]

\* Lines 522-526: entries older than 30 s are deleted.
Cleanup(q) == [a \in {x \in DOMAIN q : ~(now - q[x].CreatedAt > PendingMaxAge)} |-> q[a]]

\* A pass of the worker runs step by step: it keeps the queue's lock from
\* line 495 to line 527, while the manager's lock is taken and released by
\* GetAgent and taken again by VerifyAgent for each entry.
\* loc[Worker].todo: the entries `range pending` has still to visit.
\* Line 495: the queue's lock; the order of the visit is fixed here.  A
\* pass over an empty queue locks, finds nothing and unlocks.
WorkerLock(o) ==
    /\ pc[Worker] = "idle"
    /\ qmu = NoAgent
    /\ o \in Orders(DOMAIN pending)
    /\ IF DOMAIN pending = {}
       THEN UNCHANGED <<qmu, pc, loc>>
       ELSE /\ qmu' = Worker
            /\ pc' = [pc EXCEPT ![Worker] = "GetAgent"]
            /\ loc' = [loc EXCEPT ![Worker].todo = o]
    /\ UNCHANGED <<now, agents, mu, events, agentRoles, buckets, behaviors, anomalies,
                   agentCache, pending, verifiedAgents, recordQ, req, ret, hist>>

\* The entry is done: the loop goes to the next one, or to the cleanup.
NextEntry ==
    /\ loc' = [loc EXCEPT ![Worker].todo = Tail(@)]
    /\ pc' = [pc EXCEPT ![Worker] = IF Len(loc[Worker].todo) > 1 THEN "GetAgent"
                                     ELSE "cleanup"]

\* Lines 498-502: GetAgent for the entry, under the manager's read lock.
WorkerGetAgent ==
    /\ pc[Worker] = "GetAgent"
    /\ RLockFree
    /\ IF GetAgentOK(Head(loc[Worker].todo))
       THEN /\ pc' = [pc EXCEPT ![Worker] = "VerifyAgent"]
            /\ UNCHANGED <<pending, loc>>
       ELSE /\ pending' = [pending EXCEPT ![Head(loc[Worker].todo)] =
                              Failed(@, Head(loc[Worker].todo))]
            /\ NextEntry
    /\ UNCHANGED <<now, agents, mu, events, agentRoles, buckets, behaviors, anomalies,
                   agentCache, qmu, verifiedAgents, recordQ, req, ret, hist>>

\* Lines 505-509: VerifyAgent for the entry.  A failure is written to the
\* entry and the loop continues.  When every check passes, VerifyAgent
\* stops at m.mu.Lock() (see VerifyAgent): the worker keeps the queue's
\* lock and the manager's read lock; lines 511-518 (Verified = true,
\* verifiedAgents[agentID] = now + 5 min) are never reached.
WorkerVerifyAgent ==
    /\ pc[Worker] = "VerifyAgent"
    /\ RLockFree
    /\ IF EntryResult(Head(loc[Worker].todo)) = "pass"
       THEN /\ mu' = [readers |-> mu.readers \cup {Worker},
                      waiting |-> mu.waiting \cup {Worker}]
            /\ pc' = [pc EXCEPT ![Worker] = "VerifyAgent:Lock"]
            /\ hist' = [hist EXCEPT !.passedAt[Head(loc[Worker].todo)] = now]
            /\ UNCHANGED <<pending, loc>>
       ELSE /\ pending' = [pending EXCEPT ![Head(loc[Worker].todo)] =
                              Failed(@, Head(loc[Worker].todo))]
            /\ NextEntry
            /\ UNCHANGED <<mu, hist>>
    /\ UNCHANGED <<now, agents, events, agentRoles, buckets, behaviors, anomalies,
                   agentCache, qmu, verifiedAgents, recordQ, req, ret>>

\* Lines 521-527: the cleanup and the release of the queue's lock.
WorkerCleanup ==
    /\ pc[Worker] = "cleanup"
    /\ pending' = Cleanup(pending)
    /\ qmu' = NoAgent
    /\ pc' = [pc EXCEPT ![Worker] = "idle"]
    /\ UNCHANGED <<now, agents, mu, events, agentRoles, buckets, behaviors, anomalies,
                   agentCache, verifiedAgents, recordQ, req, loc, ret, hist>>

(***************************************************************************)
(* The state after construction (NewManager, NewPolicyEngine,              *)
(* NewAuthMiddleware): every table empty, every lock free.                 *)
(***************************************************************************)
NoRet == [op |-> "", agent |-> NoAgent, arg |-> "", result |-> ""]
NoRequest ==
    [agent |-> NoAgent, handler |-> "", action |-> "", verify |-> FALSE,
     signature |-> EmptyString]
NoLocals ==
    [agent |-> NoAgent, roles |-> <<>>, verified |-> FALSE, status |-> 0, reason |-> "",
     todo |-> <<>>,
     revokedAt |-> -1]
NoObs ==
    [afterRevoke |-> FALSE, expired |-> FALSE, cacheHit |-> FALSE, policyChanged |-> FALSE,
     canAtAuthz |-> FALSE, authz |-> "none", rate |-> "none", raced |-> FALSE,
     atVerify |-> FALSE, validWithinTTL |-> FALSE]
NoHistory ==
    [obs |-> [g \in Threads |-> NoObs],
     bound |-> [a \in Agents |-> {}], regOk |-> [a \in Agents |-> 0], revoked |-> {},
     ticks |-> 0, calls |-> 0, quiet |-> TRUE, wStart |-> -1, wAgent |-> NoAgent, wAdmitted |-> 0,
     bPhase |-> "none", bStart |-> -1, bFull |-> FALSE, bCalls |-> 0, bAdmitted |-> 0, bEmptyAt |-> -1,
     bLastAt |-> -1, passedAt |-> [a \in Agents |-> -1], listed |-> {},
     shadow |-> EmptyMap, shadowResult |-> "none", swept |-> 0,
     touched |-> [a \in Agents |-> -1], reset |-> {}]

Init ==
    /\ now = 0
    /\ agents = EmptyMap
    /\ mu = [readers |-> {}, waiting |-> {}]
    /\ events = <<>>
    /\ agentRoles = EmptyMap
    /\ buckets = EmptyMap
    /\ behaviors = EmptyMap
    /\ anomalies = <<>>
    /\ agentCache = EmptyMap
    /\ pending = EmptyMap
    /\ qmu = NoAgent
    /\ verifiedAgents = EmptyMap
    /\ recordQ = [a \in Agents |-> 0]
    /\ pc = [g \in Goroutines |-> "idle"]
    /\ req = [g \in Goroutines |-> NoRequest]
    /\ loc = [g \in Goroutines |-> NoLocals]
    /\ ret = NoRet
    /\ hist = NoHistory

(***************************************************************************)
(* SpecPolicy: the policy engine alone, under every sequence of AssignRole *)
(* and RemoveRole calls.                                                   *)
(***************************************************************************)
PolicyAssign ==
    \E a \in Agents, r \in RoleInputs :
        /\ AssignRole(a, r)
        /\ UNCHANGED <<now, agents, mu, events, buckets, behaviors, anomalies, agentCache,
                       pending, qmu, verifiedAgents, recordQ, pc, req, loc>>

PolicyRemove ==
    \E a \in Agents, r \in RoleInputs :
        /\ RemoveRole(a, r)
        /\ UNCHANGED <<now, agents, mu, events, buckets, behaviors, anomalies, agentCache,
                       pending, qmu, verifiedAgents, recordQ, pc, req, loc>>

NextPolicy == PolicyAssign \/ PolicyRemove

SpecPolicy == Init /\ [][NextPolicy]_vars

(***************************************************************************)
(* SpecRate: the rate limiter alone, called at arbitrary times.            *)
(***************************************************************************)
RateTickSteps == {10, 500, 990}
RateAgents == {"a1"}

RateTick ==
    \E d \in RateTickSteps :
        /\ Tick(d, MaxRateTicks)
        /\ UNCHANGED <<agents, mu, events, agentRoles, buckets, behaviors, anomalies,
                       agentCache, pending, qmu, verifiedAgents, recordQ, pc, req, loc, ret>>

RateAllow ==
    \E a \in RateAgents :
        /\ AllowRequest(a)
        /\ UNCHANGED <<now, agents, mu, events, agentRoles, behaviors, anomalies,
                       agentCache, pending, qmu, verifiedAgents, recordQ, pc, req, loc>>

RateOpenWindow ==
    \E a \in RateAgents :
        /\ OpenWindow(a)
        /\ UNCHANGED <<now, agents, mu, events, agentRoles, buckets, behaviors, anomalies,
                       agentCache, pending, qmu, verifiedAgents, recordQ, pc, req, loc, ret>>

NextRate == RateTick \/ RateAllow \/ RateOpenWindow

SpecRate == Init /\ [][NextRate]_vars

(***************************************************************************)
(* SpecBurst: one principal sends a burst of AllowRequest calls within     *)
(* half a second, waits a second and calls again.  Before the burst the    *)
(* principal may have called already, so the burst begins with any bucket  *)
(* those calls have left; hist.bFull tells whether its allowance was full  *)
(* then: it had no bucket yet, or its bucket refills to the burst size at  *)
(* the next call.  hist.bCalls and hist.bAdmitted count the calls of the   *)
(* burst and those that returned true, hist.bEmptyAt is the time the last  *)
(* token was taken, hist.bLastAt the time of the last call.                *)
(***************************************************************************)
BurstAgent == "a1"
BurstLen == burstSize + 10
BurstWindow == MsPerSecond \div 2
IdleSteps == {600, 1000}
BurstSteps == {100, 250}

AllowanceFull(agentID) ==
    IF agentID \in DOMAIN buckets THEN Seconds(now - buckets[agentID].lastFill) >= 1 ELSE TRUE

BurstPrior ==
    /\ hist.bPhase = "none"
    /\ hist.calls < MaxPrior
    /\ buckets' = AfterAllow(buckets, BurstAgent, now)
    /\ ret' = [op |-> "AllowRequest", agent |-> BurstAgent, arg |-> "",
               result |-> IF Allowed(buckets, BurstAgent, now) THEN "true" ELSE "false"]
    /\ hist' = [hist EXCEPT !.calls = @ + 1]
    /\ UNCHANGED <<now, agents, mu, events, agentRoles, behaviors, anomalies, agentCache,
                   pending, qmu, verifiedAgents, recordQ, pc, req, loc>>

BurstIdle ==
    \E d \in IdleSteps :
        /\ hist.bPhase = "none"
        /\ hist.ticks < MaxIdleTicks
        /\ now' = now + d
        /\ hist' = [hist EXCEPT !.ticks = @ + 1]
        /\ UNCHANGED <<agents, mu, events, agentRoles, buckets, behaviors, anomalies,
                       agentCache, pending, qmu, verifiedAgents, recordQ, pc, req, loc, ret>>

BurstBegin ==
    /\ hist.bPhase = "none"
    /\ hist' = [hist EXCEPT !.bPhase = "burst", !.bStart = now,
                            !.bFull = AllowanceFull(BurstAgent)]
    /\ UNCHANGED <<now, agents, mu, events, agentRoles, buckets, behaviors, anomalies,
                   agentCache, pending, qmu, verifiedAgents, recordQ, pc, req, loc, ret>>

BurstRequest ==
    /\ hist.bPhase = "burst"
    /\ hist.bCalls < BurstLen
    /\ buckets' = AfterAllow(buckets, BurstAgent, now)
    /\ ret' = [op |-> "AllowRequest", agent |-> BurstAgent, arg |-> "",
               result |-> IF Allowed(buckets, BurstAgent, now) THEN "true" ELSE "false"]
    /\ hist' = [hist EXCEPT
           !.bCalls = @ + 1,
           !.bAdmitted = IF Allowed(buckets, BurstAgent, now) THEN @ + 1 ELSE @,
           !.bEmptyAt = IF /\ Allowed(buckets, BurstAgent, now)
                           /\ AfterAllow(buckets, BurstAgent, now)[BurstAgent].tokens = 0
                        THEN now ELSE @,
           !.bLastAt = now]
    /\ UNCHANGED <<now, agents, mu, events, agentRoles, behaviors, anomalies, agentCache,
                   pending, qmu, verifiedAgents, recordQ, pc, req, loc>>

BurstTick ==
    \E d \in BurstSteps :
        /\ hist.bPhase = "burst"
        /\ (now + d) - hist.bStart <= BurstWindow
        /\ now' = now + d
        /\ UNCHANGED <<agents, mu, events, agentRoles, buckets, behaviors, anomalies,
                       agentCache, pending, qmu, verifiedAgents, recordQ, pc, req, loc, ret,
                       hist>>

BurstWait ==
    /\ hist.bPhase = "burst"
    /\ hist.bCalls = BurstLen
    /\ now' = now + MsPerSecond
    /\ hist' = [hist EXCEPT !.bPhase = "waited"]
    /\ UNCHANGED <<agents, mu, events, agentRoles, buckets, behaviors, anomalies,
                   agentCache, pending, qmu, verifiedAgents, recordQ, pc, req, loc, ret>>

BurstNext ==
    /\ hist.bPhase = "waited"
    /\ buckets' = AfterAllow(buckets, BurstAgent, now)
    /\ ret' = [op |-> "AllowRequest", agent |-> BurstAgent, arg |-> "",
               result |-> IF Allowed(buckets, BurstAgent, now) THEN "true" ELSE "false"]
    /\ hist' = [hist EXCEPT !.bPhase = "done", !.bLastAt = now]
    /\ UNCHANGED <<now, agents, mu, events, agentRoles, behaviors, anomalies, agentCache,
                   pending, qmu, verifiedAgents, recordQ, pc, req, loc>>

NextBurst ==
    \/ BurstPrior
    \/ BurstIdle
    \/ BurstBegin
    \/ BurstRequest
    \/ BurstTick
    \/ BurstWait
    \/ BurstNext

SpecBurst == Init /\ [][NextBurst]_vars

(***************************************************************************)
(* SpecRegistry: the exported methods of the identity manager, called by   *)
(* concurrent goroutines.                                                  *)
(***************************************************************************)
RegistryTickSteps == {1, 3601000}

\* The signatures a caller may present: a valid one for each key and nonce,
\* the empty string, and text that is no hex.
\* The nonces GenerateRandomBytes yields in this specification.
GeneratedNonces == {"n1"}
SignatureInputs ==
    {BytesToHex(Sign(PrivateKey(k), n)) : k \in KeyIds, n \in GeneratedNonces}
        \cup {EmptyString, NotHex}
NonceInputs == {BytesToHex(NonceBytes(n)) : n \in NonceIds}

RegistryTick ==
    \E d \in RegistryTickSteps :
        /\ Tick(d, MaxRegistryTicks)
        /\ UNCHANGED <<agents, mu, events, agentRoles, buckets, behaviors, anomalies,
                       agentCache, pending, qmu, verifiedAgents, recordQ, pc, req, loc, ret>>

RegistryRegister ==
    \E a \in Agents, k \in KeyIds, n \in GeneratedNonces :
        /\ RegisterAgent(a, k, n)
        /\ UNCHANGED <<now, mu, agentRoles, buckets, behaviors, anomalies, agentCache,
                       pending, qmu, verifiedAgents, recordQ, pc, req, loc>>

RegistryGet ==
    \E a \in Agents :
        /\ GetAgent(a)
        /\ UNCHANGED <<now, agents, mu, events, agentRoles, buckets, behaviors, anomalies,
                       agentCache, pending, qmu, verifiedAgents, recordQ, pc, req, loc, hist>>

RegistryVerify ==
    \E g \in Threads, a \in Agents, s \in SignatureInputs, n \in NonceInputs :
        /\ pc[g] = "idle"
        /\ VerifyAgent(g, a, s, n)
        /\ UNCHANGED <<now, agents, events, agentRoles, buckets, behaviors, anomalies,
                       agentCache, pending, qmu, verifiedAgents, recordQ, req, loc, hist>>

RegistryRevoke ==
    \E a \in Agents :
        /\ RevokeAgent(a)
        /\ UNCHANGED <<now, mu, agentRoles, buckets, behaviors, anomalies, agentCache,
                       pending, qmu, verifiedAgents, recordQ, pc, req, loc>>

NextRegistry ==
    RegistryTick \/ RegistryRegister \/ RegistryGet \/ RegistryVerify \/ RegistryRevoke

SpecRegistry == Init /\ [][NextRegistry]_vars

\* Every handler goroutine that can take a step eventually takes one.
FairRegistry == SpecRegistry /\ WF_vars(NextRegistry)

(***************************************************************************)
(* Spec: the gateway.  Handler goroutines serve protected requests stage   *)
(* by stage while the verification worker runs its passes, time passes and *)
(* the registry and the policy engine are called (registration,            *)
(* revocation, role assignment and removal).                               *)
(***************************************************************************)
GatewayTickSteps == {30001, 3601000}
GatewayAgents == {"a1"}
AgentHeaders == GatewayAgents \cup {""}
GatewayKeys == {"k1"}
GatewayRoles == {"admin"}

\* The protected routes: Protect(action) and ProtectWithVerify(action).
Routes == {[handler |-> WrappedHandler, action |-> "agent:read", verify |-> FALSE],
           [handler |-> WrappedHandler, action |-> "agent:write", verify |-> TRUE]}

\* X-Signature: absent, the registered key's signature of the nonce, or
\* another key's.
SignatureHeaders ==
    {BytesToHex(Sign(PrivateKey(k), n)) : k \in KeyIds, n \in GeneratedNonces}
        \cup {EmptyString}

GatewayTick ==
    \E d \in GatewayTickSteps :
        /\ Tick(d, MaxTicks)
        /\ UNCHANGED <<agents, mu, events, agentRoles, buckets, behaviors, anomalies,
                       agentCache, pending, qmu, verifiedAgents, recordQ, pc, req, loc, ret>>

\* The calls of the registry and of the policy engine next to the requests.
\* A call that fails changes nothing but its own return value, which no
\* request reads (SpecRegistry and SpecPolicy cover the failing calls), so
\* only the calls that succeed are made here.
GatewayRegister ==
    \E a \in GatewayAgents, k \in GatewayKeys, n \in GeneratedNonces :
        /\ ~AlreadyRegistered(a)
        /\ RegisterAgent(a, k, n)
        /\ UNCHANGED <<now, mu, agentRoles, buckets, behaviors, anomalies, agentCache,
                       pending, qmu, verifiedAgents, recordQ, pc, req, loc>>

\* RevokeAgent runs on a goroutine of its own, step by step: the status
\* check of ServeHTTP (line 426) takes no lock and can fall between the
\* write of the status and the REVOKE event.  A principal is revoked at
\* most MaxRevocations times next to the requests (SpecRegistry and
\* SpecRace revoke a revoked principal again).
Revokers == {"t2"}

GatewayRevoke ==
    \E g \in Revokers, a \in GatewayAgents :
        /\ a \in DOMAIN agents
        /\ Len(SelectSeq(events, LAMBDA e : e.EventType = "REVOKE" /\ e.AgentID = a))
               < MaxRevocations
        /\ RevokeAgentLock(g, a)
        /\ UNCHANGED <<now, agents, mu, events, agentRoles, buckets, behaviors, anomalies,
                       agentCache, pending, qmu, verifiedAgents, recordQ, loc, ret, hist>>

GatewayRevokeWrite ==
    \E g \in Revokers :
        /\ RevokeAgentWrite(g)
        /\ UNCHANGED <<now, mu, events, agentRoles, buckets, behaviors, anomalies, agentCache,
                       pending, qmu, verifiedAgents, recordQ, loc>>

GatewayRevokeLogLock ==
    \E g \in Revokers :
        /\ RevokeAgentLogLock(g)
        /\ UNCHANGED <<now, agents, mu, events, agentRoles, buckets, behaviors, anomalies,
                       agentCache, pending, qmu, verifiedAgents, recordQ, req, ret, hist>>

GatewayRevokeLog ==
    \E g \in Revokers :
        /\ RevokeAgentLog(g)
        /\ UNCHANGED <<now, agents, mu, agentRoles, buckets, behaviors, anomalies, agentCache,
                       pending, qmu, verifiedAgents, recordQ, hist>>

GatewayAssign ==
    \E a \in GatewayAgents, r \in GatewayRoles :
        /\ AssignRoleResult(a, r) = "ok"
        /\ AssignRole(a, r)
        /\ UNCHANGED <<now, agents, mu, events, buckets, behaviors, anomalies, agentCache,
                       pending, qmu, verifiedAgents, recordQ, pc, req, loc>>

GatewayRemove ==
    \E a \in GatewayAgents, r \in GatewayRoles :
        /\ RemoveRoleResult(a, r) = "ok"
        /\ RemoveRole(a, r)
        /\ UNCHANGED <<now, agents, mu, events, buckets, behaviors, anomalies, agentCache,
                       pending, qmu, verifiedAgents, recordQ, pc, req, loc>>

\* The handler goroutines that serve protected requests in this specification.
GatewayThreads == {"t1"}

GatewayStart ==
    \E g \in GatewayThreads, a \in AgentHeaders, route \in Routes, s \in SignatureHeaders :
        /\ route.verify \/ s = EmptyString
        /\ hist.calls < MaxCalls
        /\ Start(g, a, route.handler, route.action, route.verify, s)

GatewayLoad == \E g \in GatewayThreads : Load(g)

GatewayCheck == \E g \in GatewayThreads : Check(g)

GatewayLoadRoles == \E g \in GatewayThreads : LoadRoles(g)

GatewayLoadCache == \E g \in GatewayThreads : LoadCache(g)

GatewayRefuse == \E g \in GatewayThreads : Refuse(g)

GatewayRate == \E g \in GatewayThreads : Rate(g)

GatewayVerifyStage == \E g \in GatewayThreads : VerifyStage(g)

GatewayEnqueue == \E g \in GatewayThreads : Enqueue(g)

GatewayRecord == \E a \in GatewayAgents : RunRecordRequest(a)

GatewayWorker == \E o \in Orders(DOMAIN pending) : WorkerLock(o)

GatewayWorkerGetAgent == WorkerGetAgent

GatewayWorkerVerifyAgent == WorkerVerifyAgent

GatewayWorkerCleanup == WorkerCleanup

GatewaySweep == cleanupOldBuckets

Next ==
    \/ GatewayTick
    \/ GatewayRegister
    \/ GatewayRevoke
    \/ GatewayRevokeWrite
    \/ GatewayRevokeLogLock
    \/ GatewayRevokeLog
    \/ GatewayAssign
    \/ GatewayRemove
    \/ GatewayStart
    \/ GatewayLoad
    \/ GatewayLoadRoles
    \/ GatewayLoadCache
    \/ GatewayCheck
    \/ GatewayRefuse
    \/ GatewayRate
    \/ GatewayVerifyStage
    \/ GatewayEnqueue
    \/ GatewayRecord
    \/ GatewayWorker
    \/ GatewayWorkerGetAgent
    \/ GatewayWorkerVerifyAgent
    \/ GatewayWorkerCleanup
    \/ GatewaySweep

Spec == Init /\ [][Next]_vars

(***************************************************************************)
(* SpecServer: the wrapper server of cmd/wrapper-server/main.go: its       *)
(* protected routes /api/v1/identity/list, /api/v1/identity/verify and     *)
(* /api/v1/sdk/execute as main registers them, their handlers, and the     *)
(* public registration and role-assignment handlers.                       *)
(***************************************************************************)
\* main.go lines 63, 64 and 71.
ServerRoutes ==
    {[handler |-> "handleList", action |-> "agent:read", verify |-> FALSE],
     [handler |-> "handleVerify", action |-> "agent:read", verify |-> FALSE],
     [handler |-> "handleExecuteAgent", action |-> "agent:write", verify |-> FALSE]}

ServerSignatures ==
    {BytesToHex(Sign(PrivateKey(k), n)) : k \in GatewayKeys, n \in GeneratedNonces}
        \cup {EmptyString}

\* The handler's answer replaces the status of the request it was called
\* for.
Answer(g, code, message) ==
    /\ loc' = [loc EXCEPT ![g].status = code, ![g].reason = message]
    /\ pc' = [pc EXCEPT ![g] = "idle"]

\* The methods a request may carry.
Methods == {"GET", "POST"}

\* handleList: 405 unless the method is GET; otherwise ListAgents under the
\* manager's read lock, then 200.
handleList(g, method) ==
    /\ pc[g] = "handler"
    /\ req[g].handler = "handleList"
    /\ IF method # "GET"
       THEN Answer(g, 405, "")
       ELSE RLockFree /\ Answer(g, 200, "agents")
    /\ UNCHANGED <<now, agents, mu, events, agentRoles, buckets, behaviors, anomalies,
                   agentCache, pending, qmu, verifiedAgents, recordQ, req, ret, hist>>

\* handleVerify with body {agent_id, signature, nonce}: 405 unless the
\* method is POST, 400 when agent_id or signature is empty, otherwise 202
\* verification_queued.  Nothing but the response is written.
handleVerify(g, method, agentID, signature) ==
    /\ pc[g] = "handler"
    /\ req[g].handler = "handleVerify"
    /\ IF method # "POST"
       THEN /\ Answer(g, 405, "")
            /\ ret' = [op |-> "handleVerify", agent |-> agentID, arg |-> "",
                       result |-> "method not allowed"]
       ELSE IF agentID = "" \/ signature = EmptyString
       THEN /\ Answer(g, 400, "agent_id and signature required")
            /\ ret' = [op |-> "handleVerify", agent |-> agentID, arg |-> "",
                       result |-> "agent_id and signature required"]
       ELSE /\ Answer(g, 202, "verification_queued")
            /\ ret' = [op |-> "handleVerify", agent |-> agentID, arg |-> "",
                       result |-> "verification_queued"]
    /\ UNCHANGED <<now, agents, mu, events, agentRoles, buckets, behaviors, anomalies,
                   agentCache, pending, qmu, verifiedAgents, recordQ, req, hist>>

\* The bodies of a request to handleExecuteAgent: no JSON, JSON without a
\* task, a task without a question (or with an empty one), a task with a
\* question.
ExecuteBodies == {"invalid", "no task", "no question", "question"}

\* handleExecuteAgent: 405 unless the method is POST, 400 with its own
\* message for each defect of the body, otherwise the task is handed to
\* pythonBridge.ExecuteAgent and the backend's answer (200, or 500 on an
\* error) is returned.
handleExecuteAgent(g, method, body, code) ==
    /\ pc[g] = "handler"
    /\ req[g].handler = "handleExecuteAgent"
    /\ IF method # "POST" THEN Answer(g, 405, "")
       ELSE IF body = "invalid" THEN Answer(g, 400, "invalid JSON")
       ELSE IF body = "no task" THEN Answer(g, 400, "task required")
       ELSE IF body = "no question" THEN Answer(g, 400, "question required in task")
       ELSE Answer(g, code, "forwarded")
    /\ UNCHANGED <<now, agents, mu, events, agentRoles, buckets, behaviors, anomalies,
                   agentCache, pending, qmu, verifiedAgents, recordQ, req, ret, hist>>

ServerStart ==
    \E g \in GatewayThreads, a \in AgentHeaders, route \in ServerRoutes,
       s \in ServerSignatures :
        /\ hist.calls < MaxCalls
        /\ Start(g, a, route.handler, route.action, route.verify, s)

ServerList == \E g \in GatewayThreads, m \in Methods : handleList(g, m)

ServerVerify ==
    \E g \in GatewayThreads, m \in Methods, a \in AgentHeaders, s \in ServerSignatures :
        handleVerify(g, m, a, s)

ServerExecute ==
    \E g \in GatewayThreads, m \in Methods, b \in ExecuteBodies, code \in {200, 500} :
        handleExecuteAgent(g, m, b, code)

NextServer ==
    \/ GatewayRegister
    \/ GatewayAssign
    \/ ServerStart
    \/ GatewayLoad
    \/ GatewayLoadRoles
    \/ GatewayLoadCache
    \/ GatewayCheck
    \/ GatewayRefuse
    \/ GatewayRate
    \/ GatewayRecord
    \/ GatewayWorker
    \/ ServerList
    \/ ServerVerify
    \/ ServerExecute

SpecServer == Init /\ [][NextServer]_vars

(***************************************************************************)
(* Claims about the policy engine (SpecPolicy).                            *)
(***************************************************************************)
PermissionsOf(roleName) == Range(roles[roleName])

\* C9: after any sequence of AssignRole and RemoveRole calls,
\* CanPerform(id, action) is true iff at least one role currently bound to
\* id (assigned with success and not removed since) lists action; a
\* principal with no binding is denied every action.
C9_CanPerformIffBoundRoleGrants ==
    \A a \in Agents, act \in ActionNames \cup {"agent:admin"} :
        CanPerform(a, act) <=> \E r \in hist.bound[a] : act \in PermissionsOf(r)

\* A role was removed from the front of a principal's list and the roles
\* behind it still decide: read is granted, write is not.
C9_Witness ==
    /\ ret.op = "RemoveRole" /\ ret.result = "ok" /\ ret.arg = "admin"
    /\ hist.bound[ret.agent] = {"user", "service"}
    /\ CanPerform(ret.agent, "agent:read")
    /\ ~CanPerform(ret.agent, "agent:write")

(***************************************************************************)
(* Claims about the rate limiter (SpecRate).                               *)
(***************************************************************************)
\* C3: in every window of length t the number of AllowRequest calls of one
\* principal that return true is at most burst + floor(t * r).
C3_RateConservation ==
    hist.wStart >= 0 =>
        hist.wAdmitted <= burstSize
                            + ((now - hist.wStart) * requestsPerSecond) \div MsPerSecond

\* C14 as stated: with rps = 100 and burst = 50, of 60 requests sent within
\* 500 ms exactly the first 50 pass the limiter and requests 51 to 60 are
\* refused (after n requests of the burst Min(n, 50) have passed); the
\* request sent after a further wait of 1 s passes.
C14_BurstOfSixty ==
    /\ hist.bPhase \in {"burst", "waited"} => hist.bAdmitted = Min(hist.bCalls, burstSize)
    /\ hist.bPhase = "done" => ret.result = "true"

\* C14, amended: the same, for a principal whose allowance is full when the
\* burst begins (it has no bucket yet, or at least one whole second has
\* passed since the last refill of its bucket).
C14_FullBurstOfSixty ==
    hist.bFull =>
        /\ hist.bPhase \in {"burst", "waited"} =>
               hist.bAdmitted = Min(hist.bCalls, burstSize)
        /\ hist.bPhase = "done" => ret.result = "true"

\* A principal that had called before, with a full allowance again, sent
\* its 60 requests over the whole half second, 50 passed, and its request
\* after the wait passed.
C14_Witness ==
    /\ hist.bPhase = "done"
    /\ hist.bFull
    /\ hist.calls > 0
    /\ hist.bCalls = BurstLen /\ hist.bAdmitted = burstSize
    /\ now - hist.bStart = BurstWindow + MsPerSecond
    /\ ret.result = "true"

\* C15: once a principal has used all 50 tokens of its bucket, half a second
\* later the bucket has been refilled (100 req/s x 0.5 s = 50 tokens) and
\* the next request is admitted.
C15_RefillAfterHalfSecond ==
    (/\ hist.bPhase = "burst"
     /\ hist.bCalls = burstSize + 1
     /\ hist.bEmptyAt >= 0
     /\ hist.bLastAt - hist.bEmptyAt = BurstWindow)
        => hist.bAdmitted = burstSize + 1

(***************************************************************************)
(* Claims about the identity manager and the audit log (SpecRegistry).     *)
(***************************************************************************)
IsRegisterStep(a) == \E k \in KeyIds, n \in GeneratedNonces : RegisterAgent(a, k, n)

RegisterEvents(a) ==
    {i \in 1..Len(events) : events[i].EventType = "REGISTER" /\ events[i].AgentID = a}

\* C7: once register(id) has succeeded, every later register(id), also
\* after revoke(id), returns the conflict error and leaves the stored
\* record and the audit log unchanged; register(id) succeeds at most once,
\* and exactly once when the id is registered.
C7_RegisterOnce ==
    /\ [](\A a \in Agents :
            /\ hist.regOk[a] = (IF a \in DOMAIN agents THEN 1 ELSE 0)
            /\ Cardinality(RegisterEvents(a)) = hist.regOk[a])
    /\ [][\A a \in Agents :
            (a \in DOMAIN agents /\ IsRegisterStep(a)) =>
                /\ ret'.result = "already registered"
                /\ agents' = agents
                /\ events' = events]_vars

\* register(id) was refused for an id that had been revoked.
C7_Witness ==
    /\ ret.op = "RegisterAgent" /\ ret.result = "already registered"
    /\ ret.agent \in DOMAIN agents
    /\ agents[ret.agent].Status = "revoked"

EventNumber(e) == e.EventID[2]

\* C8: audit event identifiers are strictly increasing in append order, so
\* no two events share an identifier.
C8_EventIDsStrictlyIncreasing ==
    \A i, j \in 1..Len(events) :
        i < j => EventNumber(events[i]) < EventNumber(events[j])

\* C5: verify(id, sig, nonce) for an active, unexpired principal with the
\* stored nonce and a valid signature terminates, returns ok and appends a
\* VERIFY/SUCCESS event.  (A call is at "VerifyAgent:Lock" exactly when all
\* of its checks have passed.)
C5_ValidVerifyReturnsOk ==
    \A g \in Threads :
        (pc[g] = "VerifyAgent:Lock") ~>
            (/\ pc[g] = "idle"
             /\ \E i \in 1..Len(events) :
                    events[i].EventType = "VERIFY" /\ events[i].Status = "SUCCESS")

\* The two errors VerifyAgent has for a signature that does not verify.
BadSignature == {"invalid signature format", "signature verification failed"}

\* Whether ed25519 accepts the supplied text as a's signature of its nonce.
SignatureGood(a, s) ==
    /\ HexDecodes(s)
    /\ Verify(HexToBytes(agents[a].PublicKeyHex), NonceText(agents[a].Nonce), HexToBytes(s))

\* The failures in the order NotFound, Inactive, Expired, NonceMismatch,
\* BadSignature: the set of errors a call may return, {} when it has none.
ErrorsNonceFirst(a, s, n) ==
    IF a \notin DOMAIN agents THEN {"agent not found"}
    ELSE IF agents[a].Status # "active" THEN {"agent not active"}
    ELSE IF Unix(now) > agents[a].ExpiresAt THEN {"agent credentials expired"}
    ELSE IF n # agents[a].Nonce THEN {"nonce mismatch"}
    ELSE IF ~SignatureGood(a, s) THEN BadSignature
    ELSE {}

\* The same with a signature text that is no hex reported before the nonce
\* is compared.
ErrorsFormatFirst(a, s, n) ==
    IF a \notin DOMAIN agents THEN {"agent not found"}
    ELSE IF agents[a].Status # "active" THEN {"agent not active"}
    ELSE IF Unix(now) > agents[a].ExpiresAt THEN {"agent credentials expired"}
    ELSE IF ~HexDecodes(s) THEN {"invalid signature format"}
    ELSE IF n # agents[a].Nonce THEN {"nonce mismatch"}
    ELSE IF ~SignatureGood(a, s) THEN {"signature verification failed"}
    ELSE {}

\* A step is the call VerifyAgent(a, s, n) by an idle goroutine.
IsVerifyStep(a, s, n) == \E g \in Threads : pc[g] = "idle" /\ VerifyAgent(g, a, s, n)

\* C11 as stated: verify(id, sig, nonce) returns NotFound for an unregistered
\* id, otherwise Inactive when the status is not active, otherwise Expired
\* when now > expiry, otherwise NonceMismatch when the nonce differs from
\* the stored one, otherwise BadSignature when the signature does not
\* verify; in each of these cases the call returns that error, never ok,
\* and no principal record changes.
C11_VerifyErrorOrder ==
    [][\A a \in Agents, s \in SignatureInputs, n \in NonceInputs :
          (IsVerifyStep(a, s, n) /\ ErrorsNonceFirst(a, s, n) # {})
              => /\ ret'.op = "VerifyAgent" /\ ret'.agent = a
                 /\ ret'.result \in ErrorsNonceFirst(a, s, n)
                 /\ agents' = agents]_vars

\* C11 amended: as above, except that a signature that is not hex text is
\* rejected (invalid signature format) before the nonce is compared; then
\* NonceMismatch, then a signature that fails verification.
C11_VerifyErrorOrderFormatFirst ==
    [][\A a \in Agents, s \in SignatureInputs, n \in NonceInputs :
          (IsVerifyStep(a, s, n) /\ ErrorsFormatFirst(a, s, n) # {})
              => /\ ret'.op = "VerifyAgent" /\ ret'.agent = a
                 /\ ret'.result \in ErrorsFormatFirst(a, s, n)
                 /\ agents' = agents]_vars

\* A call for an active, unexpired principal with a nonce other than the
\* stored one and a signature that is no hex text returned the format
\* error.
C11_Witness ==
    /\ ret.op = "VerifyAgent" /\ ret.result = "invalid signature format"
    /\ ret.agent \in DOMAIN agents
    /\ agents[ret.agent].Status = "active"
    /\ ret.arg # NonceText(agents[ret.agent].Nonce)

\* C12: every failing verify appends a VERIFY/FAILURE audit event for the
\* principal that carries the failure reason: once a call has returned an
\* error, the log holds such an event.
C12_FailedVerifyLogged ==
    ret.op = "VerifyAgent" =>
        \E i \in 1..Len(events) :
            /\ events[i].EventType = "VERIFY" /\ events[i].Status = "FAILURE"
            /\ events[i].AgentID = ret.agent

RevokeEvents(a) ==
    SelectSeq(events, LAMBDA e : e.EventType = "REVOKE" /\ e.AgentID = a)

\* C13: revoke is idempotent: a revoke of an already-revoked principal
\* appends no audit event, so the log holds at most one REVOKE/SUCCESS
\* event per id.
C13_RevokeLoggedOnce == \A a \in Agents : Len(RevokeEvents(a)) <= 1

(***************************************************************************)
(* Claims about the gateway (Spec).                                        *)
(*                                                                         *)
(* hist.obs[g] records, for the request goroutine g is serving or served   *)
(* last, what held when the request started and what the policy engine     *)
(* said when its permission check ran.                                     *)
(***************************************************************************)
PassedStatusStage(g) == pc[g] \in {"rate", "verify", "enqueue"} \/ loc[g].status = 200

\* C1: once RevokeAgent(id) has returned ok, no protected request carrying
\* X-Agent-ID = id that starts afterwards is admitted, whatever happens in
\* between (cache hits and expiries, role assignments, register attempts
\* answered with a conflict): such a request never gets past the status
\* check.
C1_RevokedNeverAdmitted ==
    \A g \in Threads : hist.obs[g].afterRevoke => ~PassedStatusStage(g)

\* A principal was admitted and then revoked; a request that started after
\* the revocation, found the agent cache still filled and would have been
\* authorized by the principal's roles is refused with 403 at the status
\* check.
C1_Witness ==
    \E g \in Threads :
        /\ hist.obs[g].afterRevoke
        /\ req[g].agent \in DOMAIN behaviors
        /\ behaviors[req[g].agent].RequestCount > 0
        /\ hist.obs[g].cacheHit
        /\ CanPerform(req[g].agent, req[g].action)
        /\ checkPermissionFast(loc[g].roles, req[g].action)
        /\ pc[g] = "idle"
        /\ loc[g].status = 403
        /\ loc[g].reason = "agent status"

\* ed25519 verification of an X-Signature header against the public key and
\* nonce stored for the principal.
SignatureVerifies(agentID, signatureHex) ==
    /\ agentID \in DOMAIN agents
    /\ HexDecodes(signatureHex)
    /\ Verify(HexToBytes(agents[agentID].PublicKeyHex), NonceText(agents[agentID].Nonce),
              HexToBytes(signatureHex))

\* C2: on a verify-mode route, a request of a principal that has no
\* unexpired recently-verified entry is admitted only if its X-Signature
\* verifies against the principal's stored public key and nonce.
C2_UnverifiedSignatureNeverAdmitted ==
    \A g \in Threads :
        (loc[g].status = 200 /\ req[g].verify /\ ~loc[g].verified)
            => SignatureVerifies(req[g].agent, req[g].signature)

\* C4: no goroutine waits forever for a component lock: none waits for the
\* manager's write lock (which is granted once every reader has left) while
\* being itself one of the readers.
C4_NoGoroutineWaitsForever ==
    \A g \in Goroutines : ~(g \in mu.waiting /\ g \in mu.readers)

\* C6: the permission check of a request passes iff the policy engine
\* grants the route's action to the principal at the time of the request
\* (no role of the principal being assigned or removed while the request is
\* in flight): a role assigned before the request authorizes it, a role
\* removed before the request does not.
C6_AuthzFollowsPolicy ==
    \A g \in Threads :
        (hist.obs[g].authz # "none" /\ ~hist.obs[g].policyChanged)
            => (hist.obs[g].authz = "pass" <=> hist.obs[g].canAtAuthz)

\* C10: a request of a registered principal whose credentials had expired
\* when it started (now > ExpiresAt) is denied at the status check and the
\* wrapped handler is not called.
C10_ExpiredDenied ==
    \A g \in Threads :
        hist.obs[g].expired
            => /\ pc[g] \notin {"rate", "verify", "enqueue"}
               /\ (pc[g] = "idle" => (loc[g].status = 403 /\ loc[g].reason = "agent status"))

\* The audit event type of a pipeline outcome: ADMIT, RATE_DENY for 429,
\* AUTHZ_DENY for the other refusals.
OutcomeEventType(status) ==
    IF status = 200 THEN "ADMIT" ELSE IF status = 429 THEN "RATE_DENY" ELSE "AUTHZ_DENY"

\* C16: every request the protected pipeline has answered for a principal
\* left an audit event of its outcome for that principal: a deny event of
\* the failing stage or an ADMIT event (so that register(a), revoke(a) and a
\* denied request of a leave REGISTER, REVOKE, AUTHZ_DENY).
C16_OutcomeAudited ==
    \A g \in Threads :
        (pc[g] = "idle" /\ loc[g].status # 0 /\ req[g].agent # "")
            => \E i \in 1..Len(events) :
                   /\ events[i].AgentID = req[g].agent
                   /\ events[i].EventType = OutcomeEventType(loc[g].status)

\* C17: on a verify-mode route a request without X-Signature is admitted
\* when the principal was verified less than 300 s before (it is in the
\* recently-verified cache), and denied with 400 otherwise.
C17_VerifiedNeedsNoSignature ==
    \A g \in Threads :
        (/\ pc[g] = "idle"
         /\ hist.obs[g].atVerify
         /\ req[g].signature = EmptyString)
            => loc[g].status = IF hist.obs[g].validWithinTTL THEN 200 ELSE 400

\* C18: when the worker's pass has found the queued signature of an active,
\* unexpired principal valid, a VERIFY/SUCCESS event is recorded and the
\* principal is in the recently-verified cache with expiry equal to the
\* verification time plus 300 s.
C18_ValidSignatureCached ==
    \A a \in Agents :
        hist.passedAt[a] >= 0
            => /\ a \in DOMAIN verifiedAgents
               /\ verifiedAgents[a] = hist.passedAt[a] + VerifiedTTL
               /\ \E i \in 1..Len(events) :
                      /\ events[i].EventType = "VERIFY" /\ events[i].Status = "SUCCESS"
                      /\ events[i].AgentID = a

(***************************************************************************)
(* Claims about the wrapper server (SpecServer).                           *)
(***************************************************************************)
\* C19: a POST to /identity/verify with body {id, signature, nonce} that
\* was answered 202 verification_queued has placed a pending verification
\* for id in the verification queue.
C19_AcceptedVerifyIsQueued ==
    (ret.op = "handleVerify" /\ ret.result = "verification_queued")
        => ret.agent \in DOMAIN pending

\* C20: the task-execution route is verify-mode: the request of a principal
\* that is not in the recently-verified cache and carries no X-Signature
\* never reaches the handler and is never forwarded to the backend.
C20_ExecuteNeedsSignature ==
    \A g \in Threads :
        (/\ req[g].handler = "handleExecuteAgent"
         /\ req[g].signature = EmptyString
         /\ req[g].agent \notin DOMAIN verifiedAgents)
            => pc[g] # "handler" /\ loc[g].reason # "forwarded"

(***************************************************************************)
(* SpecFlood: the protected pipeline while one caller empties its bucket   *)
(* (NewRateLimiter(100, 50) in NewAuthMiddleware) with no clock step in    *)
(* between.  The flood is made of requests of a registered, active caller  *)
(* that holds the permission of the route, each sent once the recordings   *)
(* of the earlier ones have run (hist.bCalls counts them); next to it come *)
(* MaxCalls requests of any shape, registration, role assignment and       *)
(* revocation, and the verification worker.                                *)
(***************************************************************************)
FloodCalls == burstSize + 2

FloodHeaders == AgentHeaders \cup {"a2"}

FloodRoute == CHOOSE route \in Routes : ~route.verify

FloodStart ==
    \E g \in GatewayThreads, a \in GatewayAgents :
        /\ hist.bCalls < FloodCalls
        /\ GetAgentOK(a)
        /\ StatusAllows(agents[a].Status)
        /\ CanPerform(a, FloodRoute.action)
        /\ recordQ[a] = 0
        /\ StartCounted([hist EXCEPT !.bCalls = @ + 1], g, a, FloodRoute.handler,
                        FloodRoute.action, FloodRoute.verify, EmptyString)

FloodProbe ==
    \E g \in GatewayThreads, a \in FloodHeaders, route \in Routes, s \in SignatureHeaders :
        /\ route.verify \/ s = EmptyString
        /\ hist.calls < MaxCalls
        /\ Start(g, a, route.handler, route.action, route.verify, s)

NextFlood ==
    \/ GatewayRegister
    \/ GatewayAssign
    \/ GatewayRevoke
    \/ GatewayRevokeWrite
    \/ GatewayRevokeLogLock
    \/ GatewayRevokeLog
    \/ FloodStart
    \/ FloodProbe
    \/ GatewayLoad
    \/ GatewayLoadRoles
    \/ GatewayLoadCache
    \/ GatewayCheck
    \/ GatewayRefuse
    \/ GatewayRate
    \/ GatewayVerifyStage
    \/ GatewayEnqueue
    \/ GatewayRecord
    \/ GatewayWorker
    \/ GatewayWorkerGetAgent
    \/ GatewayWorkerVerifyAgent
    \/ GatewayWorkerCleanup

SpecFlood == Init /\ [][NextFlood]_vars

(***************************************************************************)
(* Claims about the order of the pipeline's stages and about what a        *)
(* denial leaves behind, checked under SpecFlood.                          *)
(***************************************************************************)
\* The request of g has been answered: denied, or handed to the handler.
Answered(g) == pc[g] \in {"idle", "handler"} /\ loc[g].status # 0

\* No stage from the permission check on has been evaluated for g.
BeforeAuthz(g) ==
    /\ hist.obs[g].authz = "none"
    /\ hist.obs[g].rate = "none"
    /\ ~hist.obs[g].atVerify

\* C21: the stages run in the order EXTRACT, EXIST, STATUS, AUTHZ, RATE,
\* VERIFY and the first stage that fails decides the answer alone: no id
\* gives 401, an unknown principal 401, a principal that is not active 403,
\* a missing permission 403, an empty bucket 429, a missing signature on a
\* verify route 400; every stage before the failing one has passed and no
\* later stage has been evaluated, and the handler runs only when every
\* stage of the route has passed.
C21_FirstFailingStageDecides ==
    \A g \in Threads :
        Answered(g) =>
            LET r == req[g]
                l == loc[g]
                o == hist.obs[g]
                held == r.action = "" \/ RolesPermit(l.roles, roles, r.action)
            IN  /\ l.status \in {200, 400, 401, 403, 429}
                /\ (r.agent = "") <=> (l.reason = "X-Agent-ID header required")
                /\ l.reason = "X-Agent-ID header required" =>
                       l.status = 401 /\ l.agent = NoAgent /\ BeforeAuthz(g)
                /\ l.status = 401 /\ r.agent # "" =>
                       /\ l.reason = "agent not found"
                       /\ l.agent = NoAgent
                       /\ ~o.cacheHit
                       /\ BeforeAuthz(g)
                /\ l.status = 403 =>
                       /\ l.agent = r.agent
                       /\ \/ /\ l.reason = "agent status"
                             /\ agents[l.agent].Status # "active"
                             /\ BeforeAuthz(g)
                          \/ /\ l.reason = "agent not authorized"
                             /\ ~held
                             /\ o.authz = "deny"
                             /\ o.rate = "none"
                             /\ ~o.atVerify
                /\ l.status = 429 =>
                       /\ l.reason = "rate limit exceeded"
                       /\ l.agent = r.agent
                       /\ held
                       /\ o.authz = "pass"
                       /\ o.rate = "deny"
                       /\ buckets[r.agent].tokens = 0
                       /\ ~o.atVerify
                /\ l.status = 400 =>
                       /\ l.reason = "X-Signature header required"
                       /\ l.agent = r.agent
                       /\ held
                       /\ o.authz = "pass"
                       /\ o.rate = "pass"
                       /\ o.atVerify
                       /\ r.verify
                       /\ r.signature = EmptyString
                /\ l.status = 200 =>
                       /\ l.agent = r.agent
                       /\ held
                       /\ o.authz = "pass"
                       /\ o.rate = "pass"
                       /\ r.verify <=> o.atVerify
                       /\ r.verify => r.signature # EmptyString

\* A caller that holds the permission of a verify route has emptied its
\* bucket with a flood of requests and is answered 429 on that route, before
\* its signature header is looked at.
C21_Witness ==
    \E g \in Threads :
        /\ Answered(g)
        /\ loc[g].status = 429
        /\ req[g].verify
        /\ hist.bCalls >= burstSize

\* The failed-auth counter the detector keeps for agentID in bs (no record:
\* nothing counted yet).
FailedAuthCount(bs, agentID) ==
    IF agentID \in DOMAIN bs THEN bs[agentID].FailedAuthCount ELSE 0

\* C22: a request denied at the rate stage (429) leaves every detector
\* record (failed-auth counter, anomaly count) and the anomaly list as they
\* were; a request denied because the principal is unknown or lacks the
\* permission raises the failed-auth counter of that principal by exactly
\* one.
C22_DenialFrame ==
    [][\A g \in Threads :
           pc[g] \in Refusals \cup {"rate"} =>
               /\ loc'[g].status = 429 =>
                      /\ behaviors' = behaviors
                      /\ anomalies' = anomalies
               /\ loc'[g].reason \in {"agent not found", "agent not authorized"} =>
                      /\ FailedAuthCount(behaviors', req[g].agent)
                             = FailedAuthCount(behaviors, req[g].agent) + 1
                      /\ \A a \in DOMAIN behaviors \ {req[g].agent} :
                             /\ a \in DOMAIN behaviors'
                             /\ behaviors'[a] = behaviors[a]]_vars

\* A request was answered 429 after the denial of an unknown principal and
\* the denial of a registered one had each been counted once.
C22_Witness ==
    /\ \E g \in Threads : Answered(g) /\ loc[g].status = 429
    /\ FailedAuthCount(behaviors, "a2") = 1
    /\ \E a \in GatewayAgents : FailedAuthCount(behaviors, a) = 1

(***************************************************************************)
(* SpecDetector: the anomaly detector on its own, its two hooks and        *)
(* ResetAgent called for two principals: one is recorded past both         *)
(* thresholds, the other only past the failed-auth threshold; after its    *)
(* reset a principal is recorded MaxCalls times at most.                   *)
(***************************************************************************)
DetectorRequests == rateSpikeThreshold + 2

DetectorFailures == failedAuthThreshold + 2

RequestCount(bs, agentID) ==
    IF agentID \in DOMAIN bs THEN bs[agentID].RequestCount ELSE 0

DetectorRecordRequest ==
    \E a \in Agents :
        /\ RequestCount(behaviors, a)
               < (IF a = "a1" /\ a \notin hist.reset THEN DetectorRequests ELSE MaxCalls)
        /\ RecordRequest(a)
        /\ UNCHANGED <<now, agents, mu, events, agentRoles, buckets, agentCache, pending, qmu,
                       verifiedAgents, recordQ, pc, req, loc, ret, hist>>

DetectorRecordFailedAuth ==
    \E a \in Agents :
        /\ FailedAuthCount(behaviors, a)
               < (IF a \notin hist.reset THEN DetectorFailures ELSE MaxCalls)
        /\ RecordFailedAuth(a)
        /\ UNCHANGED <<now, agents, mu, events, agentRoles, buckets, agentCache, pending, qmu,
                       verifiedAgents, recordQ, pc, req, loc, ret, hist>>

\* hist.reset: the principals ResetAgent was called for (once each here).
DetectorResetAgent ==
    \E a \in Agents :
        /\ a \notin hist.reset
        /\ ResetAgent(a)
        /\ hist' = [hist EXCEPT !.reset = @ \cup {a}]
        /\ UNCHANGED <<now, agents, mu, events, agentRoles, buckets, agentCache, pending, qmu,
                       verifiedAgents, recordQ, pc, req, loc, ret>>

NextDetector ==
    \/ DetectorRecordRequest
    \/ DetectorRecordFailedAuth
    \/ DetectorResetAgent

SpecDetector == Init /\ [][NextDetector]_vars

\* The anomalies of the given type recorded for agentID, as positions.
AnomaliesOf(agentID, type) ==
    {i \in 1..Len(anomalies) : anomalies[i].AgentID = agentID /\ anomalies[i].Type = type}

\* The last anomaly of list as is for agentID, of the given type and severity.
LastAnomalyIs(as, agentID, type, severity) ==
    /\ as[Len(as)].AgentID = agentID
    /\ as[Len(as)].Type = type
    /\ as[Len(as)].Severity = severity

\* C23: for each principal a recorded request appends one rate_spike
\* anomaly (severity medium) exactly when it brings the request count above
\* 100, and a recorded failure appends one failed_auth anomaly (severity
\* high) exactly when it brings the failed-auth count above 5; nothing else
\* changes the anomaly list and an emission does not reset the counter
\* (only ResetAgent, which no recording calls, deletes a record), so a
\* principal with exactly 101 recorded requests has exactly one rate_spike
\* entry (and every further request adds one more).
C23_AnomalyExactlyAboveThreshold ==
    /\ [](\A a \in Agents \ hist.reset :
              /\ Cardinality(AnomaliesOf(a, "rate_spike"))
                     = (IF RequestCount(behaviors, a) > rateSpikeThreshold
                        THEN RequestCount(behaviors, a) - rateSpikeThreshold ELSE 0)
              /\ Cardinality(AnomaliesOf(a, "failed_auth"))
                     = (IF FailedAuthCount(behaviors, a) > failedAuthThreshold
                        THEN FailedAuthCount(behaviors, a) - failedAuthThreshold ELSE 0)
              /\ RequestCount(behaviors, a) = rateSpikeThreshold + 1
                     => Cardinality(AnomaliesOf(a, "rate_spike")) = 1)
    /\ [][/\ \A a \in Agents :
                /\ hist'.reset = hist.reset =>
                       /\ RequestCount(behaviors', a) >= RequestCount(behaviors, a)
                       /\ FailedAuthCount(behaviors', a) >= FailedAuthCount(behaviors, a)
                /\ RequestCount(behaviors', a) = RequestCount(behaviors, a) + 1 =>
                       IF RequestCount(behaviors', a) > rateSpikeThreshold
                       THEN /\ Len(anomalies') = Len(anomalies) + 1
                            /\ SubSeq(anomalies', 1, Len(anomalies)) = anomalies
                            /\ LastAnomalyIs(anomalies', a, "rate_spike", "medium")
                            /\ behaviors'[a].TotalAnomalies
                                   = behaviors[a].TotalAnomalies + 1
                       ELSE anomalies' = anomalies
                /\ FailedAuthCount(behaviors', a) = FailedAuthCount(behaviors, a) + 1 =>
                       IF FailedAuthCount(behaviors', a) > failedAuthThreshold
                       THEN /\ Len(anomalies') = Len(anomalies) + 1
                            /\ SubSeq(anomalies', 1, Len(anomalies)) = anomalies
                            /\ LastAnomalyIs(anomalies', a, "failed_auth", "high")
                            /\ behaviors'[a].TotalAnomalies
                                   = behaviors[a].TotalAnomalies + 1
                       ELSE anomalies' = anomalies
          /\ anomalies' # anomalies =>
                 \E a \in Agents :
                     \/ RequestCount(behaviors', a) = RequestCount(behaviors, a) + 1
                     \/ FailedAuthCount(behaviors', a) = FailedAuthCount(behaviors, a) + 1]_vars

\* One principal has exactly 101 recorded requests and one rate_spike entry,
\* recorded after a failed_auth entry of the other principal.
C23_Witness ==
    /\ RequestCount(behaviors, "a1") = rateSpikeThreshold + 1
    /\ Cardinality(AnomaliesOf("a1", "rate_spike")) = 1
    /\ FailedAuthCount(behaviors, "a2") = failedAuthThreshold + 1
    /\ Len(anomalies) = 2
    /\ anomalies[1].Type = "failed_auth"

(***************************************************************************)
(* Claims about the recording of admitted requests, checked under Spec.    *)
(***************************************************************************)
\* The recordings of agentID: the ones that have run and the ones whose
\* goroutine has not run yet.
Recordings(q, bs, agentID) == q[agentID] + RequestCount(bs, agentID)

\* C24: RecordRequest(id) is started exactly once by each admission of a
\* request of id and by nothing else (no denial starts one), and a started
\* recording adds exactly one to the request count of id when it runs: once
\* every recording has run, the count is the number of admitted requests.
C24_RecordedOncePerAdmission ==
    /\ [](\A a \in Agents : Recordings(recordQ, behaviors, a) <= hist.calls)
    /\ [][\A a \in Agents :
              Recordings(recordQ', behaviors', a) - Recordings(recordQ, behaviors, a)
                  = Cardinality({g \in Threads :
                                    /\ req[g].agent = a
                                    /\ pc[g] \in {"rate", "verify", "enqueue"}
                                    /\ loc[g].status = 0
                                    /\ loc'[g].status = 200})]_vars

\* Of two requests of one principal the first was admitted and recorded, the
\* second denied: the request count is one and no recording is outstanding.
C24_Witness ==
    \E g \in Threads :
        /\ Answered(g)
        /\ loc[g].status \in {403, 400}
        /\ hist.calls = 2
        /\ recordQ[req[g].agent] = 0
        /\ RequestCount(behaviors, req[g].agent) = 1

(***************************************************************************)
(* SpecList: registrations with either keypair, revocations and calls of   *)
(* ListAgents.                                                             *)
(***************************************************************************)
RegistryList ==
    /\ ListAgentsCall
    /\ UNCHANGED <<now, agents, mu, events, agentRoles, buckets, behaviors, anomalies,
                   agentCache, pending, qmu, verifiedAgents, recordQ, pc, req, loc>>

NextList == RegistryRegister \/ RegistryRevoke \/ RegistryList

SpecList == Init /\ [][NextList]_vars

\* The registry with the private key of each principal replaced by the one
\* f names.
WithPrivateKeys(registry, f) ==
    [a \in DOMAIN registry |->
        [registry[a] EXCEPT !.PrivateKeyHex = PrivateKeyToHex(PrivateKey(f[a]))]]

\* C25: no record returned by ListAgents carries a private key, and what a
\* call returns does not depend on the private keys: it is what the call
\* would return from a registry that differs in nothing but the
\* principals' private keys, whichever they are.
C25_ListHidesPrivateKeys ==
    /\ [](\A r \in hist.listed :
              /\ r.PrivateKeyHex = EmptyString
              /\ \A k \in KeyIds : r.PrivateKeyHex # PrivateKeyToHex(PrivateKey(k)))
    /\ [][ret'.op = "ListAgents" /\ <<ret, hist.listed>> # <<ret', hist'.listed>> =>
              \A f \in [DOMAIN agents -> KeyIds] :
                  hist'.listed = ListAgentsOf(WithPrivateKeys(agents, f))]_vars

\* ListAgents returned the records of two principals registered with
\* different keypairs, one of them revoked.
C25_Witness ==
    /\ ret.op = "ListAgents"
    /\ Cardinality(hist.listed) = 2
    /\ \E r, q \in hist.listed :
           /\ r.PublicKeyHex # q.PublicKeyHex
           /\ r.Status = "revoked"
           /\ q.Status = "active"
    /\ \E a, b \in DOMAIN agents : agents[a].PrivateKeyHex # agents[b].PrivateKeyHex

(***************************************************************************)
(* Claims about the audit log, checked under SpecRegistry.                 *)
(***************************************************************************)
IsPrefix(s, t) == Len(s) <= Len(t) /\ SubSeq(t, 1, Len(s)) = s

\* The positions of the log whose event is about agentID.
PositionsOf(agentID) == {i \in 1..Len(events) : events[i].AgentID = agentID}

\* The j-th smallest element of the set of positions P.
NthOf(P, j) == CHOOSE i \in P : Cardinality({k \in P : k <= i}) = j

\* C26: the audit log is append-only: each snapshot (GetEvents) is a prefix
\* of every later one, so no event is removed, reordered or altered; and
\* GetEventsByAgent(id) returns exactly the events of the log whose
\* principal is id, in the order they were appended.
C26_AuditAppendOnly ==
    /\ [](\A a \in Agents :
              /\ Len(GetEventsByAgent(a)) = Cardinality(PositionsOf(a))
              /\ \A j \in 1..Len(GetEventsByAgent(a)) :
                     GetEventsByAgent(a)[j] = GetEvents[NthOf(PositionsOf(a), j)])
    /\ [][IsPrefix(GetEvents, GetEvents')]_vars

\* The log holds the registration of one principal, the registration of
\* another and the revocation of the first, appended at different times.
C26_Witness ==
    /\ Len(events) = 3
    /\ events[1].AgentID = events[3].AgentID
    /\ events[2].AgentID # events[1].AgentID
    /\ events[3].EventType = "REVOKE"
    /\ events[1].EventID # events[2].EventID
    /\ Len(GetEventsByAgent(events[1].AgentID)) = 2

(***************************************************************************)
(* SpecWorker: the verification queue and its worker.  queueVerification   *)
(* is called for registered principals with a signature of any kind (as    *)
(* ServeHTTP does at line 459, with the nonce of the record it holds)      *)
(* while principals are registered and revoked, time passes and the worker *)
(* runs its passes.                                                        *)
(***************************************************************************)
WorkerTickSteps == {100, 30001, 3601000}

\* A valid signature of the nonce, a signature made with another key, and
\* text that is no hex.
WorkerSignatures ==
    {BytesToHex(Sign(PrivateKey(k), n)) : k \in KeyIds, n \in GeneratedNonces} \cup {NotHex}

\* Mutation: an entry that is already pending is kept.
queueVerificationKeeping(agentID, signature, nonce) ==
    /\ qmu = NoAgent
    /\ pending' = IF agentID \in DOMAIN pending THEN pending
                  ELSE MapPut(pending, agentID,
                              PendingVerification(agentID, signature, nonce, now))

\* queueVerification (lines 476-487), under the queue's lock.
queueVerification(agentID, signature, nonce) ==
    /\ qmu = NoAgent
    /\ pending' = MapPut(pending, agentID,
                         PendingVerification(agentID, signature, nonce, now))

WorkerTick ==
    \E d \in WorkerTickSteps :
        /\ Tick(d, MaxRegistryTicks)
        /\ UNCHANGED <<agents, mu, events, agentRoles, buckets, behaviors, anomalies,
                       agentCache, pending, qmu, verifiedAgents, recordQ, pc, req, loc, ret>>

WorkerRegister ==
    \E a \in Agents, k \in GatewayKeys, n \in GeneratedNonces :
        /\ RegisterAgent(a, k, n)
        /\ UNCHANGED <<now, mu, agentRoles, buckets, behaviors, anomalies, agentCache,
                       pending, qmu, verifiedAgents, recordQ, pc, req, loc>>

WorkerQueue ==
    \E a \in Agents, s \in WorkerSignatures :
        /\ hist.calls < MaxCalls
        /\ a \in DOMAIN agents
        /\ queueVerification(a, s, agents[a].Nonce)
        /\ hist' = [hist EXCEPT !.calls = @ + 1]
        /\ UNCHANGED <<now, agents, mu, events, agentRoles, buckets, behaviors, anomalies,
                       agentCache, qmu, verifiedAgents, recordQ, pc, req, loc, ret>>

NextWorker ==
    \/ WorkerTick
    \/ WorkerRegister
    \/ RegistryRevoke
    \/ WorkerQueue
    \/ GatewayWorker
    \/ GatewayWorkerGetAgent
    \/ GatewayWorkerVerifyAgent
    \/ GatewayWorkerCleanup

SpecWorker == Init /\ [][NextWorker]_vars

(***************************************************************************)
(* Claims about the verification worker, checked under SpecWorker.         *)
(***************************************************************************)
\* The entry has been processed by the worker.
Processed(pv) == pv.Verified \/ pv.Error # ""

\* The step ends a pass of the worker (lines 521-527).
EndsPass == pc[Worker] = "cleanup" /\ pc'[Worker] = "idle"

\* The step writes the failure of the verification of a to its entry.
WritesFailure(a) ==
    /\ pc[Worker] \in {"GetAgent", "VerifyAgent"}
    /\ a = Head(loc[Worker].todo)
    /\ pending' # pending

\* C27: a pending entry stays in the queue only until the worker has
\* processed it or it is 30 s old: an entry that has been processed
\* (verified or failed) is not submitted to VerifyAgent again on a later
\* pass, so nothing is written to it any more, and a pass that ends leaves no
\* entry older than 30 s.
C27_ProcessedOnce ==
    [][/\ \A a \in DOMAIN pending :
              (Processed(pending[a]) /\ a \in DOMAIN pending' /\ Processed(pending'[a]))
                  => pending'[a] = pending[a]
       /\ EndsPass =>
              \A a \in DOMAIN pending' : ~(now' - pending'[a].CreatedAt > PendingMaxAge)]_vars

\* C28, the half that the behaviours of the program show: the step of the
\* worker that writes the failure to an entry writes no cache entry, and
\* right after it isRecentlyVerified(id) is false.  The other half, the
\* purge of an entry left by an earlier success, has no state to be checked
\* in: line 517 is the only write of verifiedAgents and is never reached
\* (VerifyAgent does not return from a valid signature, manager.go 170), and
\* the failure branches (lines 498-509) hold no delete.
C28_FailedNotRecentlyVerified ==
    [][\A a \in DOMAIN pending :
           WritesFailure(a) =>
               /\ pending'[a].Error # ""
               /\ ~isRecentlyVerified(a)'
               /\ a \notin DOMAIN verifiedAgents'
               /\ ~pending'[a].Verified]_vars

\* The worker has processed a queued signature made with another key: the
\* entry carries the error of the failed verification.
C28_Witness ==
    \E a \in DOMAIN pending :
        /\ pending[a].Error = "signature verification failed"
        /\ agents[a].Status = "active"
        /\ qmu = NoAgent

\* C29: an entry whose verification fails does not stop the worker: the
\* failure and its time are written to the entry and the loop goes on to the
\* next entry, whatever the order of the visit; when the loop is over every
\* entry of the queue has been processed, and the cleanup leaves the
\* queue's lock free and the worker ready for its next pass.
C29_FailureDoesNotStopWorker ==
    /\ [](pc[Worker] = "cleanup" =>
              \A a \in DOMAIN pending : pending[a].Error # "")
    /\ [][/\ \A a \in DOMAIN pending :
                WritesFailure(a) =>
                    /\ pending'[a].Error # ""
                    /\ pending'[a].VerifiedAt = now
                    /\ loc'[Worker].todo = Tail(loc[Worker].todo)
                    /\ pc'[Worker] = IF loc'[Worker].todo = <<>> THEN "cleanup"
                                     ELSE "GetAgent"
                    /\ mu' = mu
          /\ EndsPass => qmu' = NoAgent /\ mu' = mu]_vars

\* One pass, later than the enqueueing, has processed two entries that
\* failed for different reasons (a revoked principal, a signature that does
\* not verify or decode); the queue's lock is free and the worker idle.
C29_Witness ==
    /\ qmu = NoAgent
    /\ pc[Worker] = "idle"
    /\ \E a, b \in DOMAIN pending :
           /\ pending[a].Error = "agent not active"
           /\ pending[b].Error \in {"signature verification failed", "invalid signature format"}
           /\ pending[a].VerifiedAt = pending[b].VerifiedAt
           /\ pending[a].VerifiedAt > pending[a].CreatedAt

\* The component locks goroutine g holds in a state: the queue's lock,
\* the manager's lock (for reading or for writing) and the logger's lock
\* between its Lock and its Unlock inside RevokeAgent's LogEvent.  A lock
\* that a step takes and releases again is held in no state.
LocksHeld(g) ==
    (IF qmu = g THEN {"verificationQ.mu"} ELSE {})
        \cup (IF g \in mu.readers \cup Writers THEN {"Manager.mu"} ELSE {})
        \cup (IF pc[g] = "LogEvent:locked" THEN {"Logger.mu"} ELSE {})

\* C30: no goroutine ever holds two component locks at once: the queue's
\* lock is never held while the manager's lock is acquired, the manager's
\* lock never across an audit-log append.
C30_OneLockAtATime ==
    \A g \in Goroutines : Cardinality(LocksHeld(g)) <= 1

(***************************************************************************)
(* SpecRace: a handler goroutine serves protected requests while another   *)
(* goroutine calls RevokeAgent, whose lock, write and logging are steps of *)
(* their own.  The status check of ServeHTTP (line 426) takes no lock, so  *)
(* it can run between those steps; the value it reads is the one before    *)
(* or the one after the write, whichever step comes first.                 *)
(***************************************************************************)
RaceRevokeLock ==
    \E g \in Revokers, a \in GatewayAgents :
        /\ RevokeAgentLock(g, a)
        /\ UNCHANGED <<now, agents, mu, events, agentRoles, buckets, behaviors, anomalies,
                       agentCache, pending, qmu, verifiedAgents, recordQ, loc, ret, hist>>

RaceStart ==
    \E g \in GatewayThreads, a \in AgentHeaders :
        /\ hist.calls < MaxCalls
        /\ Start(g, a, FloodRoute.handler, FloodRoute.action, FloodRoute.verify, EmptyString)

NextRace ==
    \/ GatewayTick
    \/ GatewayRegister
    \/ GatewayAssign
    \/ RaceRevokeLock
    \/ GatewayRevokeWrite
    \/ GatewayRevokeLogLock
    \/ GatewayRevokeLog
    \/ RaceStart
    \/ GatewayLoad
    \/ GatewayLoadRoles
    \/ GatewayLoadCache
    \/ GatewayCheck
    \/ GatewayRefuse
    \/ GatewayRate
    \/ GatewayRecord
    \/ GatewaySweep

SpecRace == Init /\ [][NextRace]_vars

\* C31: every read or write of a principal's status happens under the
\* manager's lock: the status check of the pipeline never reads the status
\* of a record while a caller of RevokeAgent holds the write lock to write
\* it.
C31_StatusReadUnderLock ==
    \A g \in Threads : ~hist.obs[g].raced

(***************************************************************************)
(* SpecConcurrent: two goroutines call AllowRequest for one principal at   *)
(* the same instant, again and again.  A call is invoked, waits for        *)
(* rl.mu, runs lines 75-104 under the lock and returns; the calls of the   *)
(* two goroutines overlap in every way the lock allows.  hist.bCalls       *)
(* counts the calls that have run under the lock, hist.bAdmitted those     *)
(* that found a token.                                                     *)
(***************************************************************************)
ConcurrentAgent == "a1"

\* The call is made: the goroutine is at rl.mu.Lock() (line 72).
AllowRequestInvoke(g, agentID) ==
    /\ pc[g] = "idle"
    /\ hist.calls < FloodCalls
    /\ pc' = [pc EXCEPT ![g] = "AllowRequest:Lock"]
    /\ req' = [req EXCEPT ![g].agent = agentID]
    /\ loc' = [loc EXCEPT ![g] = NoLocals]
    /\ hist' = [hist EXCEPT !.calls = @ + 1]

\* Lines 73-104 under rl.mu: no other call of the limiter runs in between.
\* loc[g].reason keeps the value about to be returned.
AllowRequestLocked(g) ==
    /\ pc[g] = "AllowRequest:Lock"
    /\ buckets' = AfterAllow(buckets, req[g].agent, now)
    /\ loc' = [loc EXCEPT ![g].reason = IF Allowed(buckets, req[g].agent, now)
                                        THEN "true" ELSE "false"]
    /\ pc' = [pc EXCEPT ![g] = "AllowRequest:return"]
    /\ hist' = [hist EXCEPT
           !.bCalls = @ + 1,
           !.bAdmitted = IF Allowed(buckets, req[g].agent, now) THEN @ + 1 ELSE @]

AllowRequestReturn(g) ==
    /\ pc[g] = "AllowRequest:return"
    /\ ret' = [op |-> "AllowRequest", agent |-> req[g].agent, arg |-> "",
               result |-> loc[g].reason]
    /\ pc' = [pc EXCEPT ![g] = "idle"]

ConcurrentInvoke ==
    \E g \in Threads :
        /\ AllowRequestInvoke(g, ConcurrentAgent)
        /\ UNCHANGED <<now, agents, mu, events, agentRoles, buckets, behaviors, anomalies,
                       agentCache, pending, qmu, verifiedAgents, recordQ, ret>>

ConcurrentLocked ==
    \E g \in Threads :
        /\ AllowRequestLocked(g)
        /\ UNCHANGED <<now, agents, mu, events, agentRoles, behaviors, anomalies,
                       agentCache, pending, qmu, verifiedAgents, recordQ, req, ret>>

ConcurrentReturn ==
    \E g \in Threads :
        /\ AllowRequestReturn(g)
        /\ UNCHANGED <<now, agents, mu, events, agentRoles, buckets, behaviors, anomalies,
                       agentCache, pending, qmu, verifiedAgents, recordQ, req, loc, hist>>

NextConcurrent == ConcurrentInvoke \/ ConcurrentLocked \/ ConcurrentReturn

SpecConcurrent == Init /\ [][NextConcurrent]_vars

\* C32: concurrent AllowRequest calls for one principal behave as if run
\* one at a time: with the burst of k = 50 tokens and no refill in between,
\* of the n calls that have run exactly min(n, k) were admitted, the
\* bucket's request counter is the number of admitted calls and each
\* admitted call took one token; a call returns false only once the burst
\* is used up.
C32_ConcurrentCallsSerialize ==
    /\ hist.bAdmitted = Min(hist.bCalls, burstSize)
    /\ hist.bCalls > 0 =>
           /\ ConcurrentAgent \in DOMAIN buckets
           /\ buckets[ConcurrentAgent].requests = hist.bAdmitted
           /\ buckets[ConcurrentAgent].tokens = burstSize - hist.bAdmitted
    /\ \A g \in Threads :
           pc[g] = "AllowRequest:return" =>
               /\ loc[g].reason = "false" => hist.bCalls > burstSize
               /\ loc[g].reason = "true" => hist.bAdmitted >= 1

\* Both goroutines are about to return from overlapping calls, one with the
\* last token and one without any, after 51 calls have run.
C32_Witness ==
    /\ hist.bCalls = burstSize + 1
    /\ \E g, h \in Threads :
           /\ pc[g] = "AllowRequest:return" /\ loc[g].reason = "true"
           /\ pc[h] = "AllowRequest:return" /\ loc[h].reason = "false"

(***************************************************************************)
(* SpecSweep: the rate limiter with its sweeper.  AllowRequest and Reset   *)
(* are called at arbitrary times; cleanupOldBuckets runs one pass for a    *)
(* tick of its 5-minute ticker, at the tick or later (hist.swept is the    *)
(* number of ticker periods its last pass has consumed).  Next to the      *)
(* limiter runs the same limiter without sweeper, on the same calls        *)
(* (hist.shadow are its buckets, hist.shadowResult its last answer);       *)
(* hist.touched[id] is the time of the last AllowRequest call for id.      *)
(* Calls come one by one at any time (MaxCalls of them, hist.calls), and   *)
(* as one burst (hist.bCalls) whose first burstSize calls are made at one  *)
(* instant with nothing in between, so that the bucket runs empty.         *)
(***************************************************************************)
SweepTickSteps == {900, 299500, 3599600}
SweepAgents == {"a1"}

SweepTick ==
    \E d \in SweepTickSteps :
        /\ ~InBurst
        /\ Tick(d, MaxSweepTicks)
        /\ UNCHANGED <<agents, mu, events, agentRoles, buckets, behaviors, anomalies,
                       agentCache, pending, qmu, verifiedAgents, recordQ, pc, req, loc, ret>>

\* AllowRequest(a) on the limiter and on the limiter without sweeper; h is
\* the history the call is counted in.
SweepCall(h, a) ==
    /\ buckets' = AfterAllow(buckets, a, now)
    /\ ret' = [op |-> "AllowRequest", agent |-> a, arg |-> "",
               result |-> IF Allowed(buckets, a, now) THEN "true" ELSE "false"]
    /\ hist' = [h EXCEPT
           !.touched[a] = now,
           !.shadow = AfterAllow(hist.shadow, a, now),
           !.shadowResult = IF Allowed(hist.shadow, a, now) THEN "true" ELSE "false"]
    /\ UNCHANGED <<now, agents, mu, events, agentRoles, behaviors, anomalies,
                   agentCache, pending, qmu, verifiedAgents, recordQ, pc, req, loc>>

SweepAllow ==
    \E a \in SweepAgents :
        /\ ~InBurst
        /\ hist.calls < MaxCalls
        /\ SweepCall([hist EXCEPT !.calls = @ + 1], a)

SweepBurst ==
    \E a \in SweepAgents :
        /\ hist.bCalls < FloodCalls
        /\ SweepCall([hist EXCEPT !.bCalls = @ + 1], a)

SweepReset ==
    \E a \in SweepAgents :
        /\ ~InBurst
        /\ a \in DOMAIN buckets
        /\ buckets' = Reset(buckets, a)
        /\ ret' = [op |-> "Reset", agent |-> a, arg |-> "", result |-> "ok"]
        /\ hist' = [hist EXCEPT !.shadow = Reset(hist.shadow, a)]
        /\ UNCHANGED <<now, agents, mu, events, agentRoles, behaviors, anomalies,
                       agentCache, pending, qmu, verifiedAgents, recordQ, pc, req, loc>>

NextSweep == SweepTick \/ SweepAllow \/ SweepBurst \/ SweepReset \/ cleanupOldBuckets

SpecSweep == Init /\ [][NextSweep]_vars

\* C33: in every reachable state every bucket holds between 0 and burstSize
\* tokens, whatever AllowRequest calls, refills, Reset calls and sweeper
\* passes have happened.
C33_TokensWithinBurst ==
    \A a \in DOMAIN buckets : buckets[a].tokens >= 0 /\ buckets[a].tokens <= burstSize

\* A bucket that has served three calls or more is one token short of the
\* burst after a refill that added more tokens than were missing.
C33_Witness ==
    \E a \in DOMAIN buckets :
        /\ buckets[a].requests >= 3
        /\ buckets[a].tokens = burstSize - 1
        /\ buckets[a].lastFill = now
        /\ now > 0

\* C34: the sweeper removes a bucket only if its principal has made no
\* AllowRequest call for more than one hour: a bucket touched by
\* AllowRequest within the last hour is never evicted.
C34_EvictsOnlyIdleBuckets ==
    [][\A a \in DOMAIN buckets :
           (a \notin DOMAIN buckets' /\ hist'.swept # hist.swept)
               => now - hist.touched[a] > BucketMaxAge]_vars

\* C40: eviction by the sweeper cannot be seen in the admission decisions:
\* every AllowRequest call returns what the same call returns from the
\* limiter that keeps every bucket.
C40_EvictionUnobservable ==
    ret.op = "AllowRequest" => ret.result = hist.shadowResult

\* The sweeper has evicted a bucket that the limiter without sweeper still
\* holds; the principal has then used up the burst of its new bucket and
\* is denied by both limiters.
C40_Witness ==
    /\ ret.op = "AllowRequest"
    /\ ret.result = "false"
    /\ hist.swept > 0
    /\ ret.agent \in DOMAIN buckets
    /\ ret.agent \in DOMAIN hist.shadow
    /\ buckets[ret.agent].requests < hist.shadow[ret.agent].requests

(***************************************************************************)
(* Claims about the stored status, checked under SpecRegistry.             *)
(***************************************************************************)
\* C35: the stored status of a principal only moves from active to revoked:
\* a record starts active, a revoked record stays revoked whatever is
\* called (registration attempts included), and expiry is never written:
\* the stored status is never "expired", also after VerifyAgent has
\* answered that the credentials are expired.
C35_StatusMonotone ==
    /\ [](\A a \in DOMAIN agents : agents[a].Status \in {"active", "revoked"})
    /\ [][\A a \in DOMAIN agents :
              /\ a \in DOMAIN agents'
              /\ agents[a].Status = "revoked" => agents'[a].Status = "revoked"
              /\ agents'[a].Status # agents[a].Status =>
                     agents[a].Status = "active" /\ agents'[a].Status = "revoked"]_vars

\* VerifyAgent has answered that the credentials of a principal are expired
\* and its stored status is still active; another principal, registered
\* once, is revoked.
C35_Witness ==
    /\ ret.op = "VerifyAgent"
    /\ ret.result = "agent credentials expired"
    /\ agents[ret.agent].Status = "active"
    /\ \E b \in DOMAIN agents : agents[b].Status = "revoked" /\ hist.regOk[b] = 1

(***************************************************************************)
(* Claims about the errors of the policy engine, checked under SpecPolicy. *)
(***************************************************************************)
\* The step is a call of op (AssignRole or RemoveRole): each call leaves its
\* record in ret.
IsPolicyCall(op) ==
    /\ ret'.op = op
    /\ ret' # ret \/ agentRoles' # agentRoles

\* C36: AssignRole(id, role) answers "role not found" for a role that is
\* not defined and "agent already has role" when id holds the role, and
\* RemoveRole(id, role) answers "agent has no roles" or "agent does not
\* have role" when id does not hold it; in these cases no binding changes,
\* and otherwise the call answers ok.  So no role list ever holds a role
\* twice or a role that is not defined.
C36_PolicyErrorsLeaveBindings ==
    /\ [](\A a \in DOMAIN agentRoles :
              /\ \A i, j \in 1..Len(agentRoles[a]) :
                     agentRoles[a][i] = agentRoles[a][j] => i = j
              /\ Range(agentRoles[a]) \subseteq DOMAIN roles)
    /\ [][/\ IsPolicyCall("AssignRole") =>
                 /\ ret'.result =
                        (IF ret'.arg \notin DOMAIN roles THEN "role not found"
                         ELSE IF ret'.arg \in Range(RolesOf(ret'.agent))
                         THEN "agent already has role" ELSE "ok")
                 /\ ret'.result # "ok" => agentRoles' = agentRoles
          /\ IsPolicyCall("RemoveRole") =>
                 /\ ret'.arg \notin Range(RolesOf(ret'.agent)) =>
                        /\ ret'.result \in {"agent has no roles", "agent does not have role"}
                        /\ agentRoles' = agentRoles
                 /\ ret'.arg \in Range(RolesOf(ret'.agent)) => ret'.result = "ok"]_vars

\* A principal that holds two roles was refused a role it already holds,
\* after another principal had its only role removed.
C36_Witness ==
    /\ ret.op = "AssignRole"
    /\ ret.result = "agent already has role"
    /\ Len(RolesOf(ret.agent)) >= 2
    /\ \E a \in DOMAIN agentRoles : agentRoles[a] = <<>>

(***************************************************************************)
(* Claims about the verification queue, checked under SpecWorker.          *)
(***************************************************************************)
\* The step is a call of queueVerification (the only step that counts a
\* call in SpecWorker).
IsQueueStep == hist'.calls = hist.calls + 1

\* C37: the queue holds at most one entry per principal, stored under its
\* id: queueVerification for an id that has an entry replaces it by a new
\* one (the given signature and nonce, created now, not verified, no result
\* yet) and leaves the entries of the other principals as they were.
C37_OneEntryPerPrincipal ==
    /\ [](\A a \in DOMAIN pending : pending[a].AgentID = a)
    /\ [][IsQueueStep =>
              /\ DOMAIN pending \subseteq DOMAIN pending'
              /\ \E a \in DOMAIN pending' :
                     /\ DOMAIN pending' = DOMAIN pending \cup {a}
                     /\ pending'[a].Signature \in WorkerSignatures
                     /\ pending'[a] = PendingVerification(a, pending'[a].Signature,
                                                          agents[a].Nonce, now)
                     /\ \A b \in DOMAIN pending \ {a} : pending'[b] = pending[b]]_vars

\* Two calls of queueVerification were made for the only registered
\* principal, the second after the worker had processed the entry of the
\* first: the queue holds one entry, created later and without a result.
C37_Witness ==
    \E a \in Agents :
        /\ DOMAIN agents = {a}
        /\ hist.calls = 2
        /\ hist.ticks = 1
        /\ DOMAIN pending = {a}
        /\ pending[a].CreatedAt = now
        /\ now = 100
        /\ pending[a].Error = ""

(***************************************************************************)
(* Claims about what a denial leaves in the limiter, checked under Spec.   *)
(***************************************************************************)
\* The step answers the request of g with 401 or 403.
DeniedEarlyStep(g) ==
    /\ loc'[g] # loc[g]
    /\ loc'[g].status \in {401, 403}

\* C38: a request refused before the rate stage (no id, unknown principal,
\* status not active, missing permission) never reached AllowRequest: the
\* step that refuses it leaves every bucket as it was and creates none, and
\* the buckets change only in a step of a request that is at the rate stage
\* or in a pass of the limiter's cleanup goroutine.
C38_EarlyDenialLeavesLimiter ==
    /\ [](\A g \in Threads :
              (Answered(g) /\ loc[g].status \in {401, 403}) => hist.obs[g].rate = "none")
    /\ [][/\ \A g \in Threads : DeniedEarlyStep(g) => buckets' = buckets
          /\ buckets' # buckets =>
                 \/ \E g \in Threads : pc[g] = "rate"
                 \/ hist'.swept # hist.swept]_vars

\* The second request of a principal was refused for a missing permission
\* after its first one had been admitted: its bucket misses one token only.
C38_Witness ==
    \E g \in Threads :
        /\ Answered(g)
        /\ loc[g].status = 403
        /\ loc[g].reason = "agent not authorized"
        /\ hist.calls = 2
        /\ req[g].agent \in DOMAIN buckets
        /\ buckets[req[g].agent].tokens = burstSize - 1
        /\ buckets[req[g].agent].requests = 1

(***************************************************************************)
(* Claims about roles and registration, checked under Spec.                *)
(***************************************************************************)
\* C39: roles are bound to registered principals only, so a principal holds
\* no role when RegisterAgent has just succeeded for it, and as long as no
\* role operation follows the registration no request of it that needs a
\* permission is admitted.
C39_NoRoleBeforeRegistration ==
    /\ \A a \in DOMAIN agentRoles : agentRoles[a] # <<>> => a \in DOMAIN agents
    /\ (ret.op = "RegisterAgent" /\ ret.result = "ok") =>
           /\ RolesOf(ret.agent) = <<>>
           /\ \A g \in Threads :
                  (Answered(g) /\ req[g].agent = ret.agent /\ req[g].action # "")
                      => loc[g].status # 200

=============================================================================
